---- MODULE Spec2Model ----
(***************************************************************************)
(* Model of the transaction normalisation pipeline (transformer.ts), of    *)
(* the audit recorder and the configuration (audit-logger.ts), of the      *)
(* scraper (scraper.ts), of the server's routes (routes/scrape.ts) and of  *)
(* the client's event stream (gui/src/api/client.ts).                      *)
(*                                                                         *)
(* Representation.                                                         *)
(*  - A string is a sequence of one-character strings; "" is << >>.        *)
(*  - A description is a sequence of tokens <<kind, value>>: whitespace,   *)
(*    a digit run (its parseInt value), the words the installment          *)
(*    patterns look for, and other words.                                  *)
(*  - An amount is an integer number of minor units (agorot): the number   *)
(*    -150.5 is -15050.                                                    *)
(*  - undefined / null is None == << >>, a present value v is Some(v).     *)
(*  - A Date object is [valid, time]: time is minutes since the epoch, UTC.*)
(***************************************************************************)
EXTENDS Integers, Sequences, FiniteSets, TLC

VARIABLES
    tz,         \* offset of the runtime's local time zone from UTC, in minutes
    call,       \* the last call: its arguments and its result, or the log before it
    log,        \* the AuditLog captured by the closure of createAuditLogger
    formatted,  \* the text returned by format(), until the next recorder call
    ops,        \* the number of recorder operations made so far
    other,      \* the AuditLog of a second createAuditLogger() call
    es          \* the EventSource of createScrapeStream and what onEvent was given

vars == <<tz, call, log, formatted, ops, other, es>>

-----------------------------------------------------------------------------
(* Bounds of the model.                                                    *)

MaxTxns == 3          \* longest transaction list given to the list functions
MaxInstallment == 3   \* largest number written in a generated installment phrase
MaxSpread == 5        \* largest installment number given to adjustInstallmentDate
MaxOps == 3           \* most recorder operations made on one audit log
MaxMessages == 3      \* most messages the server writes to one event stream

-----------------------------------------------------------------------------
(* Optional values.                                                        *)

None == << >>
Some(v) == <<v>>
IsSome(o) == Len(o) = 1
IsNone(o) == Len(o) = 0
Get(o) == o[1]

-----------------------------------------------------------------------------
(* Strings of characters and numbers in them.                              *)

DigitChars == <<"0", "1", "2", "3", "4", "5", "6", "7", "8", "9">>

IsDigit(c) == c \in {"0", "1", "2", "3", "4", "5", "6", "7", "8", "9"}

DigitVal(c) == CHOOSE n \in 0..9 : DigitChars[n + 1] = c

AllDigits(s) == \A i \in 1..Len(s) : IsDigit(s[i])

RECURSIVE NatToStr(_)
\* String(n) for a non-negative integer n
NatToStr(n) ==
    IF n < 10 THEN <<DigitChars[n + 1]>>
    ELSE NatToStr(n \div 10) \o <<DigitChars[(n % 10) + 1]>>

RECURSIVE StrToNat(_)
\* the value of a non-empty run of digits
StrToNat(s) ==
    IF Len(s) = 0 THEN 0
    ELSE StrToNat(SubSeq(s, 1, Len(s) - 1)) * 10 + DigitVal(s[Len(s)])

\* s.padStart(2, "0")
padStart2(s) == IF Len(s) < 2 THEN <<"0">> \o s ELSE s

\* Math.abs
Abs(n) == IF n < 0 THEN -n ELSE n

\* x.toFixed(2) for x >= 0 given in minor units
toFixed2(minor) ==
    NatToStr(minor \div 100) \o <<".">> \o padStart2(NatToStr(minor % 100))

\* The position of the first "." of s, or 0
DotAt(s) ==
    IF \E i \in 1..Len(s) : s[i] = "."
    THEN CHOOSE i \in 1..Len(s) : s[i] = "." /\ \A j \in 1..(i - 1) : s[j] # "."
    ELSE 0

\* the text before and after the first "." of s
IntPart(s) == IF DotAt(s) = 0 THEN s ELSE SubSeq(s, 1, DotAt(s) - 1)
FracPart(s) == IF DotAt(s) = 0 THEN << >> ELSE SubSeq(s, DotAt(s) + 1, Len(s))

\* the minor units written by up to two digits after the "."
FracValue(fp) ==
    IF Len(fp) = 0 THEN 0
    ELSE IF Len(fp) = 1 THEN DigitVal(fp[1]) * 10
    ELSE DigitVal(fp[1]) * 10 + DigitVal(fp[2])

NumberOfParts(ip, fp) ==
    IF Len(ip) = 0 \/ ~AllDigits(ip) \/ ~AllDigits(fp) \/ Len(fp) > 2
    THEN None
    ELSE Some(StrToNat(ip) * 100 + FracValue(fp))

\* parseFloat(s), in minor units; None is NaN.  The strings met here are
\* "", a digit run, or a digit run, "." and up to two digits.
parseFloat(s) == NumberOfParts(IntPart(s), FracPart(s))

\* parseFloat(s) || 0
parseFloatOrZero(s) == IF IsSome(parseFloat(s)) THEN Get(parseFloat(s)) ELSE 0

-----------------------------------------------------------------------------
(* Calendar arithmetic of the Date object (ECMAScript MakeDay,             *)
(* YearFromTime, MonthFromTime, DateFromTime), proleptic Gregorian.  Day   *)
(* numbers count from 1970-01-01; the computation works in 400-year eras   *)
(* that start on a first of March.                                         *)

MinutesPerDay == 24 * 60

\* the year a month belongs to when years start in March, and the number of
\* days from the first of March to the first of month m
MarchYear(y, m) == IF m <= 2 THEN y - 1 ELSE y
DaysBeforeMonth(m) == (153 * ((m + 9) % 12) + 2) \div 5
DayOfEra(yoe, doy) == yoe * 365 + yoe \div 4 - yoe \div 100 + doy

\* MakeDay(y, m, d): the day number of the d-th day counted from the first
\* of month m of year y (d may run past the end of the month)
MakeDay(y, m, d) ==
    (MarchYear(y, m) \div 400) * 146097
    + DayOfEra(MarchYear(y, m) % 400, DaysBeforeMonth(m))
    - 719468 + (d - 1)

EraOf(z) == (z + 719468) \div 146097
DoeOf(z) == (z + 719468) % 146097
YoeOf(doe) == (doe - doe \div 1460 + doe \div 36524 - doe \div 146096) \div 365
DoyOf(doe, yoe) == doe - (365 * yoe + yoe \div 4 - yoe \div 100)
MonthIndexOf(doy) == (5 * doy + 2) \div 153

CivilOf(era, yoe, doy, mp) ==
    [y |-> yoe + era * 400 + (IF mp < 10 THEN 0 ELSE 1),
     m |-> IF mp < 10 THEN mp + 3 ELSE mp - 9,
     d |-> doy - (153 * mp + 2) \div 5 + 1]

CivilOfYear(era, doe, yoe) ==
    CivilOf(era, yoe, DoyOf(doe, yoe), MonthIndexOf(DoyOf(doe, yoe)))

\* the calendar date [y, m, d] of day number z
CivilFromDays(z) == CivilOfYear(EraOf(z), DoeOf(z), YoeOf(DoeOf(z)))

InvalidDate == [valid |-> FALSE, time |-> 0]

\* The shapes of date strings: "YYYY-MM-DD", and "YYYY-MM-DDTHH:MM:SS"
\* followed by "Z" or by "+HH:MM" / "-HH:MM"
DateShape(input) ==
    /\ Len(input) >= 10
    /\ AllDigits(SubSeq(input, 1, 4)) /\ input[5] = "-"
    /\ AllDigits(SubSeq(input, 6, 7)) /\ input[8] = "-"
    /\ AllDigits(SubSeq(input, 9, 10))

TimeShape(input) ==
    /\ Len(input) >= 19
    /\ input[11] = "T"
    /\ AllDigits(SubSeq(input, 12, 13)) /\ input[14] = ":"
    /\ AllDigits(SubSeq(input, 15, 16)) /\ input[17] = ":"
    /\ AllDigits(SubSeq(input, 18, 19))

ZoneShape(input) ==
    \/ Len(input) = 20 /\ input[20] = "Z"
    \/ /\ Len(input) = 25
       /\ input[20] \in {"+", "-"}
       /\ AllDigits(SubSeq(input, 21, 22)) /\ input[23] = ":"
       /\ AllDigits(SubSeq(input, 24, 25))

\* the fields of a date string: hh, mi and off (the minutes the zone is
\* east of UTC) are 0 for a date without a time
DateFields(input) ==
    [y   |-> StrToNat(SubSeq(input, 1, 4)),
     m   |-> StrToNat(SubSeq(input, 6, 7)),
     d   |-> StrToNat(SubSeq(input, 9, 10)),
     hh  |-> IF Len(input) = 10 THEN 0 ELSE StrToNat(SubSeq(input, 12, 13)),
     mi  |-> IF Len(input) = 10 THEN 0 ELSE StrToNat(SubSeq(input, 15, 16)),
     off |-> IF Len(input) = 25
             THEN (IF input[20] = "-" THEN -1 ELSE 1)
                  * (StrToNat(SubSeq(input, 21, 22)) * 60 + StrToNat(SubSeq(input, 24, 25)))
             ELSE 0]

DateOfFields(f) ==
    IF f.m \in 1..12 /\ f.d \in 1..31 /\ f.hh < 24 /\ f.mi < 60
    THEN [valid |-> TRUE,
          time  |-> MakeDay(f.y, f.m, f.d) * MinutesPerDay + f.hh * 60 + f.mi - f.off]
    ELSE InvalidDate

\* new Date(input) for a string: a date without a time is midnight UTC, a
\* date with a time and a zone is that instant, and any other text met here
\* is not a date.
NewDate(input) ==
    IF DateShape(input) /\ (Len(input) = 10 \/ (TimeShape(input) /\ ZoneShape(input)))
    THEN DateOfFields(DateFields(input))
    ELSE InvalidDate

\* the local day number and minute of the day of a Date
LocalDay(date) == (date.time + tz) \div MinutesPerDay
LocalMinute(date) == (date.time + tz) % MinutesPerDay

\* getFullYear(), getMonth() + 1, getDate()
LocalCivil(date) == CivilFromDays(LocalDay(date))

\* getDate()
getDate(date) == LocalCivil(date).d

\* the Date at local calendar month c.y, c.m, day-of-month dt, minute of the day mi
DateOfLocal(c, dt, mi) ==
    [valid |-> TRUE, time |-> MakeDay(c.y, c.m, dt) * MinutesPerDay + mi - tz]

\* date.setDate(dt): the dt-th day counted from the first of the local
\* month of date, at the same local time of day
setDate(date, dt) == DateOfLocal(LocalCivil(date), dt, LocalMinute(date))

\* parseDate(input): None for an invalid date
DateOrNone(date) == IF ~date.valid THEN None ELSE Some(date)
parseDate(input) == DateOrNone(NewDate(input))

\* `${year}-${month}-${day}` of formatDate
FormatCivil(c) ==
    NatToStr(c.y) \o <<"-">> \o padStart2(NatToStr(c.m)) \o <<"-">> \o padStart2(NatToStr(c.d))

\* formatDate(date) for a Date object: [threw, str]
formatDate(date) ==
    IF ~date.valid
    THEN [threw |-> TRUE, str |-> << >>]
    ELSE [threw |-> FALSE, str |-> FormatCivil(LocalCivil(date))]

\* A variant of adjustParsed that adds installmentNumber days, one too many
adjustParsed_OneTooMany(date, installmentNumber) ==
    IF installmentNumber > 1
    THEN formatDate(setDate(date, getDate(date) + installmentNumber))
    ELSE formatDate(date)

\* the body of adjustInstallmentDate once the date is parsed
adjustParsed(date, installmentNumber) ==
    IF installmentNumber > 1
    THEN formatDate(setDate(date, getDate(date) + (installmentNumber - 1)))
    ELSE formatDate(date)

\* the return of adjustInstallmentDate for the result of parseDate
adjustOrOriginal(isoDate, date, installmentNumber) ==
    IF IsNone(date)
    THEN [threw |-> FALSE, str |-> isoDate]
    ELSE adjustParsed(Get(date), installmentNumber)

\* adjustInstallmentDate(isoDate, installmentNumber): [threw, str]
adjustInstallmentDate(isoDate, installmentNumber) ==
    adjustOrOriginal(isoDate, parseDate(isoDate), installmentNumber)

-----------------------------------------------------------------------------
(* Descriptions and the installment patterns.                              *)
(* Token kinds: "sp" whitespace, "num" a digit run, "dash" the character   *)
(* "-", "tashlum" the Hebrew word for payment, "mem" the Hebrew letter mem *)
(* ("of"), "tokh" the letters that follow it in the word "mitokh" ("out    *)
(* of"), "payment" and "of" the English words in any letter case, "word"   *)
(* any other text.                                                         *)

Tok(kind) == <<kind, 0>>
Num(n) == <<"num", n>>
EndOfText == <<"end", 0>>

TokAt(text, i) == IF i \in 1..Len(text) THEN text[i] ELSE EndOfText
IsTok(text, i, kind) == TokAt(text, i)[1] = kind

RECURSIVE SkipSpace(_, _)
\* \s* : the first position at or after i that holds no whitespace
SkipSpace(text, i) ==
    IF IsTok(text, i, "sp") THEN SkipSpace(text, i + 1) ELSE i

\* The elements of a pattern: <<"lit", kind>> one token of that kind,
\* <<"opt", kind>> at most one, <<"ws", "">> any whitespace (\s*),
\* <<"num", "">> a captured digit run (\d+).
Lit(kind) == <<"lit", kind>>
Opt(kind) == <<"opt", kind>>
Ws == <<"ws", "">>
Digits == <<"num", "">>

\* INSTALLMENT_PATTERNS, in the order of the source
INSTALLMENT_PATTERNS ==
    << \* tashlum \s* (?:- \s*)? (\d+) \s* mem (?:tokh)? \s* -? \s* (\d+)
       <<Lit("tashlum"), Ws, Opt("dash"), Ws, Digits, Ws, Lit("mem"), Opt("tokh"),
         Ws, Opt("dash"), Ws, Digits>>,
       \* (\d+) \s* mem tokh \s* (\d+)
       <<Digits, Ws, Lit("mem"), Lit("tokh"), Ws, Digits>>,
       \* payment \s* (\d+) \s* of \s* (\d+), letter case ignored
       <<Lit("payment"), Ws, Digits, Ws, Lit("of"), Ws, Digits>> >>

RECURSIVE MatchFrom(_, _, _, _, _)
\* the groups of the match of pattern from its k-th element on at position
\* i of text, or None.  No element of the patterns can match where the
\* element before it could have taken more, so the greedy match is the match.
MatchFrom(pattern, k, text, i, groups) ==
    IF k > Len(pattern) THEN Some(groups)
    ELSE IF pattern[k][1] = "ws"
    THEN MatchFrom(pattern, k + 1, text, SkipSpace(text, i), groups)
    ELSE IF pattern[k][1] = "opt"
    THEN MatchFrom(pattern, k + 1, text,
                   IF IsTok(text, i, pattern[k][2]) THEN i + 1 ELSE i, groups)
    ELSE IF pattern[k][1] = "num"
    THEN IF IsTok(text, i, "num")
         THEN MatchFrom(pattern, k + 1, text, i + 1, Append(groups, text[i][2]))
         ELSE None
    ELSE IF IsTok(text, i, pattern[k][2])
         THEN MatchFrom(pattern, k + 1, text, i + 1, groups)
         ELSE None

\* the positions of text at which pattern matches
MatchStarts(pattern, text) ==
    {i \in 1..Len(text) : IsSome(MatchFrom(pattern, 1, text, i, << >>))}

FirstOf(starts) == CHOOSE i \in starts : \A j \in starts : i <= j

\* text.match(pattern): the groups of the leftmost match, parsed by parseInt
Match(pattern, text) ==
    IF MatchStarts(pattern, text) = {} THEN None
    ELSE MatchFrom(pattern, 1, text, FirstOf(MatchStarts(pattern, text)), << >>)

\* A variant of ValidInstallment without the upper limit of the number
ValidInstallment_NoUpperLimit(number, total) == number > 0 /\ total > 0

\* the validation of parsed values: number > 0 && total > 0 && number <= total
ValidInstallment(number, total) == number > 0 /\ total > 0 /\ number <= total

\* the body of the loop of parseInstallments for the match of one pattern:
\* the value returned, or None to go on with the next pattern
matchResult(match) ==
    IF IsSome(match) /\ ValidInstallment(Get(match)[1], Get(match)[2])
    THEN Some([number |-> Get(match)[1], total |-> Get(match)[2]])
    ELSE None

RECURSIVE parseInstallmentsFrom(_, _)
\* the loop of parseInstallments from pattern p on
parseInstallmentsFrom(p, text) ==
    IF p > Len(INSTALLMENT_PATTERNS) THEN None
    ELSE IF IsSome(matchResult(Match(INSTALLMENT_PATTERNS[p], text)))
    THEN matchResult(Match(INSTALLMENT_PATTERNS[p], text))
    ELSE parseInstallmentsFrom(p + 1, text)

parseInstallments(text) == parseInstallmentsFrom(1, text)

\* text.trim()
RECURSIVE trimStart(_)
trimStart(text) ==
    IF Len(text) > 0 /\ text[1][1] = "sp" THEN trimStart(Tail(text)) ELSE text

RECURSIVE trimEnd(_)
trimEnd(text) ==
    IF Len(text) > 0 /\ text[Len(text)][1] = "sp"
    THEN trimEnd(SubSeq(text, 1, Len(text) - 1))
    ELSE text

trim(text) == trimEnd(trimStart(text))

-----------------------------------------------------------------------------
(* Transactions (EnrichedTransaction) and the transformer.                 *)
(* A transaction is a record with the fields description (tokens), status, *)
(* chargedAmount, originalAmount (optional minor units), date,             *)
(* processedDate (optional strings), installments (optional                *)
(* [number, total]), and the optional atoms originalCurrency, identifier,  *)
(* accountNumber, accountName, type, category, memo.                       *)

\* JavaScript truthiness of an optional string of characters, of an
\* optional atom and of an optional number
TruthyStr(o) == IsSome(o) /\ Len(Get(o)) > 0
TruthyAtom(o) == IsSome(o) /\ Get(o) # ""
TruthyNum(o) == IsSome(o) /\ Get(o) # 0

\* txn.installments?.number && txn.installments?.total
RawInstallmentsTruthy(txn) ==
    /\ IsSome(txn.installments)
    /\ Get(txn.installments).number # 0
    /\ Get(txn.installments).total # 0

\* shouldSkipTransaction(txn)
shouldSkipTransaction(txn) ==
    IF txn.status = "pending" THEN TRUE
    ELSE IF IsNone(txn.chargedAmount) \/ Get(txn.chargedAmount) = 0 THEN TRUE
    ELSE FALSE

\* The memo object of buildMemo: the <<key, value>> pairs in insertion
\* order, which is the order JSON.stringify writes them in; "" is << >>.
MemoEntry(cond, key, value) == IF cond THEN << <<key, value>> >> ELSE << >>

AtomOf(o) == IF IsSome(o) THEN Get(o) ELSE ""

\* txn.date && txn.processedDate && txn.date !== txn.processedDate, and
\* the date parses
ShowTransactionDate(txn) ==
    /\ TruthyStr(txn.date) /\ TruthyStr(txn.processedDate)
    /\ Get(txn.date) # Get(txn.processedDate)
    /\ IsSome(parseDate(Get(txn.date)))

\* txn.processedDate is there and parses
ShowChargeDate(txn) ==
    TruthyStr(txn.processedDate) /\ IsSome(parseDate(Get(txn.processedDate)))

\* the original amount differs from the charged one by more than 0.01
ShowOriginalAmount(txn) ==
    /\ IsSome(txn.originalAmount) /\ IsSome(txn.chargedAmount)
    /\ Abs(Get(txn.originalAmount) - Get(txn.chargedAmount)) > 1

\* formatDate(parseDate(s)) where the date is shown
FormatShown(shown, s) ==
    IF shown THEN formatDate(Get(parseDate(Get(s)))) ELSE [threw |-> FALSE, str |-> << >>]

\* memo.installment: the resolved info, else the one of the raw record
InstallmentEntry(txn, installments) ==
    IF IsSome(installments)
    THEN << <<"installment", <<Get(installments).number, Get(installments).total>> >> >>
    ELSE IF RawInstallmentsTruthy(txn)
    THEN << <<"installment",
              <<Get(txn.installments).number, Get(txn.installments).total>> >> >>
    ELSE << >>

MemoOf(txn, installments, fTxn, fCharge) ==
    IF fTxn.threw \/ fCharge.threw
    THEN [threw |-> TRUE, memo |-> << >>]
    ELSE [threw |-> FALSE,
          memo  |->
            MemoEntry(ShowTransactionDate(txn), "transactionDate", fTxn.str)
            \o MemoEntry(ShowChargeDate(txn), "chargeDate", fCharge.str)
            \o InstallmentEntry(txn, installments)
            \o MemoEntry(ShowOriginalAmount(txn), "originalAmount",
                         IF IsSome(txn.originalAmount) THEN Get(txn.originalAmount) ELSE 0)
            \o MemoEntry(ShowOriginalAmount(txn) /\ TruthyAtom(txn.originalCurrency),
                         "originalCurrency", AtomOf(txn.originalCurrency))
            \o MemoEntry(TruthyAtom(txn.identifier), "ref", AtomOf(txn.identifier))
            \o MemoEntry(TruthyAtom(txn.accountNumber), "account", AtomOf(txn.accountNumber))
            \o MemoEntry(TruthyAtom(txn.accountName), "source", AtomOf(txn.accountName))
            \o MemoEntry(TruthyAtom(txn.type) /\ txn.type # Some("normal"), "type",
                         AtomOf(txn.type))
            \o MemoEntry(TruthyAtom(txn.category), "category", AtomOf(txn.category))
            \o MemoEntry(TruthyAtom(txn.memo), "bankMemo", AtomOf(txn.memo))]

\* buildMemo(txn, installments): [threw, memo]
buildMemo(txn, installments) ==
    MemoOf(txn, installments,
           FormatShown(ShowTransactionDate(txn), txn.date),
           FormatShown(ShowChargeDate(txn), txn.processedDate))

\* the fallback of transformTransaction: the installments of the raw record
RawInstallments(txn) ==
    IF RawInstallmentsTruthy(txn)
    THEN Some([number |-> Get(txn.installments).number,
               total  |-> Get(txn.installments).total])
    ELSE None

OrElse(first, second) == IF IsSome(first) THEN first ELSE second

\* the installment info transformTransaction resolves: parsed from the
\* description, else the one attached to the raw record
resolveInstallments(txn) ==
    OrElse(parseInstallments(txn.description), RawInstallments(txn))

\* A variant of governingDate that prefers the transaction date
governingDate_TransactionFirst(txn) ==
    IF TruthyStr(txn.date) THEN txn.date ELSE txn.processedDate

\* the date transformTransaction uses: txn.processedDate || txn.date
governingDate(txn) ==
    IF TruthyStr(txn.processedDate) THEN txn.processedDate ELSE txn.date

\* A variant of outflowOf that fills outflow whatever the sign of the amount
outflowOf_AnySign(amount) == toFixed2(Abs(amount))

\* the outflow and inflow strings of an amount in minor units
outflowOf(amount) == IF amount < 0 THEN toFixed2(Abs(amount)) ELSE << >>
inflowOf(amount) == IF amount > 0 THEN toFixed2(amount) ELSE << >>

Returned(row) == [threw |-> FALSE, row |-> row]
Threw == [threw |-> TRUE, row |-> None]

\* installments && installments.number > 1
Spreads(installments) == IsSome(installments) /\ Get(installments).number > 1

\* the row of transformTransaction from its date and memo
rowOf(txn, date, memo) ==
    IF date.threw \/ memo.threw THEN Threw
    ELSE Returned(Some([date    |-> date.str,
                        payee   |-> trim(txn.description),
                        memo    |-> memo.memo,
                        outflow |-> outflowOf(Get(txn.chargedAmount)),
                        inflow  |-> inflowOf(Get(txn.chargedAmount))]))

\* transformTransaction from the formatting of the date on
transformDated(txn, installments, rawDate) ==
    IF Spreads(installments)
    THEN rowOf(txn, adjustInstallmentDate(rawDate, Get(installments).number),
               buildMemo(txn, installments))
    ELSE IF IsNone(parseDate(rawDate)) THEN Returned(None)
    ELSE rowOf(txn, formatDate(Get(parseDate(rawDate))), buildMemo(txn, installments))

\* transformTransaction from the choice of the date on
transformKept(txn, installments, rawDate) ==
    IF ~TruthyStr(rawDate) THEN Returned(None)
    ELSE transformDated(txn, installments, Get(rawDate))

\* transformTransaction(txn): [threw, row], row None for null
transformTransaction(txn) ==
    IF shouldSkipTransaction(txn) THEN Returned(None)
    ELSE transformKept(txn, resolveInstallments(txn), governingDate(txn))

\* The collation order of the characters met in date strings
Collation ==
    <<"-", ":", "+", "0", "1", "2", "3", "4", "5", "6", "7", "8", "9",
      "a", "d", "e", "n", "o", "t", "T", "Z">>

CharRank(c) == CHOOSE i \in 1..Len(Collation) : Collation[i] = c

RECURSIVE localeCompare(_, _)
\* a.localeCompare(b): negative, zero or positive
localeCompare(a, b) ==
    IF Len(a) = 0 /\ Len(b) = 0 THEN 0
    ELSE IF Len(a) = 0 THEN -1
    ELSE IF Len(b) = 0 THEN 1
    ELSE IF CharRank(a[1]) < CharRank(b[1]) THEN -1
    ELSE IF CharRank(a[1]) > CharRank(b[1]) THEN 1
    ELSE localeCompare(Tail(a), Tail(b))

\* A variant of compareRows that sorts the oldest row first
compareRows_OldestFirst(a, b) == localeCompare(a.date, b.date)

\* the comparator of rows.sort: (a, b) => b.date.localeCompare(a.date)
compareRows(a, b) == localeCompare(b.date, a.date)

Front(seq) == SubSeq(seq, 1, Len(seq) - 1)
Last(seq) == seq[Len(seq)]

RECURSIVE insertRow(_, _)
\* rows, sorted, with row x put behind every row that does not sort after it
insertRow(rows, x) ==
    IF Len(rows) = 0 THEN <<x>>
    ELSE IF compareRows(Last(rows), x) <= 0 THEN Append(rows, x)
    ELSE Append(insertRow(Front(rows), x), Last(rows))

RECURSIVE sortRows(_)
\* rows.sort(comparator): a stable sort
sortRows(rows) ==
    IF Len(rows) = 0 THEN << >>
    ELSE insertRow(sortRows(Front(rows)), Last(rows))

\* one round of the loop of transformTransactions: rows.push(row) if (row)
pushRow(front, r) ==
    IF front.threw \/ r.threw THEN [threw |-> TRUE, rows |-> << >>]
    ELSE IF IsSome(r.row) THEN [threw |-> FALSE, rows |-> Append(front.rows, Get(r.row))]
    ELSE front

RECURSIVE collectRows(_)
\* the loop of transformTransactions: [threw, rows], the rows in input order
collectRows(transactions) ==
    IF Len(transactions) = 0 THEN [threw |-> FALSE, rows |-> << >>]
    ELSE pushRow(collectRows(Front(transactions)), transformTransaction(Last(transactions)))

sortCollected(c) == IF c.threw THEN c ELSE [threw |-> FALSE, rows |-> sortRows(c.rows)]

\* transformTransactions(transactions): [threw, rows]
transformTransactions(transactions) == sortCollected(collectRows(transactions))

\* A variant of skipReason that looks at the amount before the status
skipReason_AmountFirst(txn) ==
    IF IsNone(txn.chargedAmount) \/ Get(txn.chargedAmount) = 0 THEN "Zero amount"
    ELSE "Pending"

\* the reason filterAndPartition gives for a skipped transaction
skipReason(txn) == IF txn.status = "pending" THEN "Pending" ELSE "Zero amount"

\* A variant of partitionOne that puts a kept transaction in front of the list
partitionOne_KeptInFront(front, txn) ==
    IF shouldSkipTransaction(txn)
    THEN [kept    |-> front.kept,
          skipped |-> Append(front.skipped, [txn |-> txn, reason |-> skipReason(txn)])]
    ELSE [kept |-> <<txn>> \o front.kept, skipped |-> front.skipped]

\* one round of the loop of filterAndPartition
partitionOne(front, txn) ==
    IF shouldSkipTransaction(txn)
    THEN [kept    |-> front.kept,
          skipped |-> Append(front.skipped, [txn |-> txn, reason |-> skipReason(txn)])]
    ELSE [kept |-> Append(front.kept, txn), skipped |-> front.skipped]

RECURSIVE filterAndPartition(_)
\* filterAndPartition(transactions): [kept, skipped]
filterAndPartition(transactions) ==
    IF Len(transactions) = 0 THEN [kept |-> << >>, skipped |-> << >>]
    ELSE partitionOne(filterAndPartition(Front(transactions)), Last(transactions))

\* A variant of accountKey that gives a missing name the empty key
accountKey_EmptyForMissing(txn) == AtomOf(txn.accountName)

\* txn.accountName ?? "unknown"
accountKey(txn) == IF IsSome(txn.accountName) THEN Get(txn.accountName) ELSE "unknown"

\* byAccount.get(key) ?? { count: 0, outflow: 0, inflow: 0 } on the ordered
\* map byAccount, a sequence of entries [key, count, outflow, inflow]
HasKey(byAccount, key) == \E i \in 1..Len(byAccount) : byAccount[i].key = key
KeyIndex(byAccount, key) == CHOOSE i \in 1..Len(byAccount) : byAccount[i].key = key
getOrDefault(byAccount, key) ==
    IF HasKey(byAccount, key) THEN byAccount[KeyIndex(byAccount, key)]
    ELSE [key |-> key, count |-> 0, outflow |-> 0, inflow |-> 0]

\* byAccount.set(key, entry): in place for a known key, appended for a new one
setEntry(byAccount, key, entry) ==
    IF HasKey(byAccount, key)
    THEN [byAccount EXCEPT ![KeyIndex(byAccount, key)] = entry]
    ELSE Append(byAccount, entry)

\* txn.chargedAmount ?? 0
amountOrZero(txn) == IF IsSome(txn.chargedAmount) THEN Get(txn.chargedAmount) ELSE 0

\* A variant of addAmount that counts every amount as outflow
addAmount_AllOutflow(existing, amount) ==
    [key     |-> existing.key,
     count   |-> existing.count + 1,
     outflow |-> existing.outflow + Abs(amount),
     inflow  |-> existing.inflow + (IF amount > 0 THEN amount ELSE 0)]

\* existing with one more transaction of the given amount
addAmount(existing, amount) ==
    [key     |-> existing.key,
     count   |-> existing.count + 1,
     outflow |-> existing.outflow + (IF amount < 0 THEN Abs(amount) ELSE 0),
     inflow  |-> existing.inflow + (IF amount > 0 THEN amount ELSE 0)]

\* one round of the first loop of calculateSummary
addToSummary(byAccount, txn) ==
    setEntry(byAccount, accountKey(txn),
             addAmount(getOrDefault(byAccount, accountKey(txn)), amountOrZero(txn)))

RECURSIVE summaryByAccount(_)
summaryByAccount(transactions) ==
    IF Len(transactions) = 0 THEN << >>
    ELSE addToSummary(summaryByAccount(Front(transactions)), Last(transactions))

RECURSIVE sumOutflow(_)
sumOutflow(entries) ==
    IF Len(entries) = 0 THEN 0
    ELSE sumOutflow(Front(entries)) + Last(entries).outflow

RECURSIVE sumInflow(_)
sumInflow(entries) ==
    IF Len(entries) = 0 THEN 0
    ELSE sumInflow(Front(entries)) + Last(entries).inflow

\* the second loop of calculateSummary and its return
summaryOf(byAccount) ==
    [byAccount    |-> byAccount,
     totalOutflow |-> sumOutflow(byAccount),
     totalInflow  |-> sumInflow(byAccount)]

\* calculateSummary(transactions): [byAccount, totalOutflow, totalInflow]
calculateSummary(transactions) == summaryOf(summaryByAccount(transactions))

-----------------------------------------------------------------------------
(* Inputs of the transformer calls.                                        *)

\* "YYYY-MM-DD"
PlainDate(y, m, d) ==
    NatToStr(y) \o <<"-">> \o padStart2(NatToStr(m)) \o <<"-">> \o padStart2(NatToStr(d))

\* "YYYY-MM-DDT00:00:00+02:00", "...+03:00" and "YYYY-MM-DDT10:30:00Z"
Midnight == <<"T", "0", "0", ":", "0", "0", ":", "0", "0">>
AtPlus2(y, m, d) == PlainDate(y, m, d) \o Midnight \o <<"+", "0", "2", ":", "0", "0">>
AtPlus3(y, m, d) == PlainDate(y, m, d) \o Midnight \o <<"+", "0", "3", ":", "0", "0">>
AtZulu(y, m, d) ==
    PlainDate(y, m, d) \o <<"T", "1", "0", ":", "3", "0", ":", "0", "0", "Z">>

NotADate == <<"n", "o", "t", "-", "a", "-", "d", "a", "t", "e">>

\* date strings that new Date parses
GoodDates ==
    { PlainDate(2024, 3, 15), AtPlus2(2024, 3, 15), AtZulu(2024, 3, 15),
      PlainDate(2024, 3, 30), PlainDate(2024, 2, 28), PlainDate(2023, 2, 27),
      AtPlus2(2023, 12, 31), AtPlus3(2024, 1, 1), PlainDate(2024, 3, 10) }

\* date strings that it does not parse
BadDates == { NotADate, << >> }

DateStrings == GoodDates \cup BadDates

Sp == Tok("sp")
Word(n) == <<"word", n>>

\* "tashlum n m-t", "n mitokh t", "payment n of t"
Phrase1(n, t) == <<Tok("tashlum"), Sp, Num(n), Sp, Tok("mem"), Tok("dash"), Num(t)>>
Phrase2(n, t) == <<Num(n), Sp, Tok("mem"), Tok("tokh"), Sp, Num(t)>>
Phrase3(n, t) == <<Tok("payment"), Sp, Num(n), Sp, Tok("of"), Sp, Num(t)>>

Descriptions ==
    { << >>,
      <<Word(1)>>,
      <<Sp, Word(1), Sp>>,
      <<Word(1), Sp, Word(2)>>,
      \* "tashlum - 2 m - 12", "tashlum -3 m- 6", "tashlum 5 mitokh 10"
      <<Tok("tashlum"), Sp, Tok("dash"), Sp, Num(2), Sp, Tok("mem"), Sp, Tok("dash"), Sp, Num(12)>>,
      <<Tok("tashlum"), Sp, Tok("dash"), Num(3), Sp, Tok("mem"), Tok("dash"), Sp, Num(6)>>,
      <<Tok("tashlum"), Sp, Num(5), Sp, Tok("mem"), Tok("tokh"), Sp, Num(10)>>,
      \* a purchase paid in installments, with words around the phrase
      <<Word(1), Sp>> \o Phrase1(3, 12),
      <<Sp>> \o Phrase3(2, 12) \o <<Sp, Word(2), Sp>>,
      Phrase1(12, 12), Phrase1(15, 12), Phrase1(0, 12), Phrase2(5, 10),
      \* an invalid match of an earlier pattern and a valid one of a later pattern
      Phrase1(15, 12) \o <<Sp>> \o Phrase2(2, 12),
      Phrase2(7, 3) \o <<Sp>> \o Phrase3(1, 6),
      Phrase1(0, 5) \o <<Sp>> \o Phrase3(4, 6),
      \* an invalid leftmost match of a pattern before a valid match of the same pattern
      Phrase1(13, 12) \o <<Sp>> \o Phrase1(2, 12),
      \* a number that is not followed by the rest of the phrase
      <<Tok("tashlum"), Sp, Num(3), Sp, Num(7), Sp, Tok("mem"), Tok("tokh"), Sp, Num(12)>>,
      <<Tok("payment"), Sp, Num(2), Sp, Word(1)>> }
    \cup { Phrase1(n, t) : n \in 0..MaxInstallment, t \in 0..MaxInstallment }
    \cup { Phrase2(n, t) : n \in 0..MaxInstallment, t \in 0..MaxInstallment }
    \cup { Phrase3(n, t) : n \in 0..MaxInstallment, t \in 0..MaxInstallment }

\* amounts in minor units: -150.00, -150.50, -0.05, 0.01, 1.00, 500.00
Amounts == { -15000, -15050, -5, 1, 100, 50000 }

InstallmentFields ==
    { None, Some([number |-> 2, total |-> 12]), Some([number |-> 1, total |-> 6]),
      Some([number |-> 0, total |-> 12]), Some([number |-> 15, total |-> 12]) }

BaseTxn ==
    [ description      |-> <<Word(1)>>,
      status           |-> "completed",
      chargedAmount    |-> Some(-15000),
      originalAmount   |-> Some(-15000),
      originalCurrency |-> Some("ILS"),
      date             |-> Some(AtPlus2(2024, 3, 15)),
      processedDate    |-> Some(AtPlus2(2024, 3, 15)),
      installments     |-> None,
      identifier       |-> None,
      accountNumber    |-> None,
      accountName      |-> Some("Max"),
      type             |-> Some("normal"),
      category         |-> None,
      memo             |-> None ]

\* The transactions given to transformTransaction: every description with a
\* few dates, every pair of dates with a few descriptions, and every status
\* with every amount.
TxnsByDescription ==
    { [BaseTxn EXCEPT !.description = d, !.processedDate = p, !.installments = i] :
        d \in Descriptions,
        p \in { Some(PlainDate(2024, 3, 30)), Some(AtPlus3(2024, 1, 1)), Some(NotADate) },
        i \in { None, Some([number |-> 2, total |-> 12]) } }

TxnsByDate ==
    { [BaseTxn EXCEPT !.description = d, !.processedDate = p, !.date = t, !.installments = i] :
        d \in { <<Word(1)>>, Phrase3(1, 6), Phrase3(2, 12), Phrase1(3, 12) },
        p \in { None } \cup { Some(x) : x \in DateStrings },
        t \in { None, Some(PlainDate(2024, 3, 10)), Some(AtPlus2(2024, 3, 15)), Some(NotADate) },
        i \in InstallmentFields }

TxnsByAmount ==
    { [BaseTxn EXCEPT !.status = s, !.chargedAmount = a, !.description = d] :
        s \in { "completed", "pending", "cancelled" },
        a \in { None, Some(0) } \cup { Some(x) : x \in Amounts },
        d \in { <<Sp, Word(1), Sp>>, Phrase3(2, 12) } }

Transactions == TxnsByDescription \cup TxnsByDate \cup TxnsByAmount

\* The transactions the lists given to the list functions are made of
ListPool ==
    { [BaseTxn EXCEPT !.description = <<Word(1)>>, !.processedDate = Some(PlainDate(2024, 3, 10))],
      [BaseTxn EXCEPT !.description = <<Word(2)>>, !.processedDate = Some(PlainDate(2024, 3, 10)),
                      !.chargedAmount = Some(50000), !.accountName = Some("Leumi")],
      [BaseTxn EXCEPT !.processedDate = Some(PlainDate(2024, 3, 20)), !.accountName = None,
                      !.chargedAmount = Some(-15050)],
      [BaseTxn EXCEPT !.description = Phrase3(3, 12), !.chargedAmount = Some(100)],
      [BaseTxn EXCEPT !.status = "pending", !.accountName = Some("Leumi")],
      [BaseTxn EXCEPT !.status = "pending", !.chargedAmount = Some(0)],
      [BaseTxn EXCEPT !.chargedAmount = Some(0), !.accountName = Some("")],
      [BaseTxn EXCEPT !.chargedAmount = None, !.accountName = None],
      [BaseTxn EXCEPT !.processedDate = Some(NotADate), !.date = None,
                      !.chargedAmount = Some(-5)],
      [BaseTxn EXCEPT !.description = Phrase3(2, 12), !.processedDate = Some(NotADate),
                      !.accountName = Some("Leumi")] }

TransactionLists == UNION { [1..n -> ListPool] : n \in 0..MaxTxns }

-----------------------------------------------------------------------------
(* The calls of the transformer functions.  The functions are pure: a call  *)
(* is made when no call is under way, and call holds its arguments and its *)
(* result until it has returned.                                           *)

ParseInstallments ==
    /\ call.op = "none"
    /\ \E text \in Descriptions :
         call' = [op |-> "parseInstallments", text |-> text,
                  result |-> parseInstallments(text)]
    /\ UNCHANGED <<tz, log, formatted, ops, other, es>>

AdjustInstallmentDate ==
    /\ call.op = "none"
    /\ \E isoDate \in DateStrings, installmentNumber \in 0..MaxSpread :
         call' = [op |-> "adjustInstallmentDate", isoDate |-> isoDate,
                  installmentNumber |-> installmentNumber,
                  result |-> adjustInstallmentDate(isoDate, installmentNumber)]
    /\ UNCHANGED <<tz, log, formatted, ops, other, es>>

TransformTransaction ==
    /\ call.op = "none"
    /\ \E txn \in Transactions :
         call' = [op |-> "transformTransaction", txn |-> txn,
                  result |-> transformTransaction(txn)]
    /\ UNCHANGED <<tz, log, formatted, ops, other, es>>

TransformTransactions ==
    /\ call.op = "none"
    /\ \E transactions \in TransactionLists :
         call' = [op |-> "transformTransactions", transactions |-> transactions,
                  result |-> transformTransactions(transactions)]
    /\ UNCHANGED <<tz, log, formatted, ops, other, es>>

FilterAndPartition ==
    /\ call.op = "none"
    /\ \E transactions \in TransactionLists :
         call' = [op |-> "filterAndPartition", transactions |-> transactions,
                  result |-> filterAndPartition(transactions)]
    /\ UNCHANGED <<tz, log, formatted, ops, other, es>>

CalculateSummary ==
    /\ call.op = "none"
    /\ \E transactions \in TransactionLists :
         call' = [op |-> "calculateSummary", transactions |-> transactions,
                  result |-> calculateSummary(transactions)]
    /\ UNCHANGED <<tz, log, formatted, ops, other, es>>

\* the caller takes the result
Return ==
    /\ call.op # "none"
    /\ call' = [op |-> "none"]
    /\ UNCHANGED <<tz, log, formatted, ops, other, es>>

-----------------------------------------------------------------------------
(* The audit recorder (createAuditLogger) and formatAuditLog.              *)
(* rawScraperResults, transformationDetails and detailedLoggingLimit are   *)
(* optional fields of the log: None while they are not set.                *)

\* createAuditLogger(): the log of a new recorder
NewLog ==
    [ timestamp              |-> "2024-03-15T08:00:00.000Z",
      accounts               |-> << >>,
      skipped                |-> << >>,
      outputFile             |-> None,
      outputTransactionCount |-> 0,
      totalOutflow           |-> 0,
      totalInflow            |-> 0,
      checksum               |-> None,
      rawScraperResults      |-> None,
      transformationDetails  |-> None,
      detailedLoggingLimit   |-> None ]

\* A variant of rawOutflow with the test of the sign turned round
RECURSIVE rawOutflow_OfPositive(_)
rawOutflow_OfPositive(transactions) ==
    IF Len(transactions) = 0 THEN 0
    ELSE rawOutflow_OfPositive(Front(transactions))
         + (IF amountOrZero(Last(transactions)) > 0
            THEN Abs(amountOrZero(Last(transactions))) ELSE 0)

RECURSIVE rawOutflow(_)
\* the outflow summed by the inner loop of recordScrapeResults
rawOutflow(transactions) ==
    IF Len(transactions) = 0 THEN 0
    ELSE rawOutflow(Front(transactions))
         + (IF amountOrZero(Last(transactions)) < 0
            THEN Abs(amountOrZero(Last(transactions))) ELSE 0)

RECURSIVE rawInflow(_)
rawInflow(transactions) ==
    IF Len(transactions) = 0 THEN 0
    ELSE rawInflow(Front(transactions))
         + (IF amountOrZero(Last(transactions)) > 0
            THEN amountOrZero(Last(transactions)) ELSE 0)

\* A variant of accountSummary that counts the transactions with an amount only
accountSummary_WithAmountOnly(result) ==
    [name             |-> result.accountName,
     transactionCount |-> Cardinality({i \in 1..Len(result.transactions) :
                                         amountOrZero(result.transactions[i]) # 0}),
     totalOutflow     |-> rawOutflow(result.transactions),
     totalInflow      |-> rawInflow(result.transactions)]

\* the AccountSummary pushed for one successful result
accountSummary(result) ==
    [name             |-> result.accountName,
     transactionCount |-> Len(result.transactions),
     totalOutflow     |-> rawOutflow(result.transactions),
     totalInflow      |-> rawInflow(result.transactions)]

RECURSIVE recordScrapeResults(_, _)
\* log.accounts after recordScrapeResults(results)
recordScrapeResults(accounts, results) ==
    IF Len(results) = 0 THEN accounts
    ELSE IF ~Last(results).success THEN recordScrapeResults(accounts, Front(results))
    ELSE Append(recordScrapeResults(accounts, Front(results)), accountSummary(Last(results)))

\* array.slice(0, limit) for limit > 0
sliceTo(array, limit) == SubSeq(array, 1, IF limit < Len(array) THEN limit ELSE Len(array))

\* one element of log.rawScraperResults
rawResult(result, limit) ==
    [accountName  |-> result.accountName,
     success      |-> result.success,
     error        |-> result.error,
     transactions |-> IF limit > 0 THEN sliceTo(result.transactions, limit)
                      ELSE result.transactions]

\* results.map(...) of recordRawScrapeResults
rawResults(results, limit) == [i \in 1..Len(results) |-> rawResult(results[i], limit)]

\* the SkippedTransaction pushed by recordSkipped
skippedEntry(txn, reason) ==
    [reason      |-> reason,
     description |-> txn.description,
     amount      |-> amountOrZero(txn),
     date        |-> IF IsSome(txn.processedDate) THEN Get(txn.processedDate)
                     ELSE IF IsSome(txn.date) THEN Get(txn.date)
                     ELSE <<"u", "n", "k", "n", "o", "w", "n">>]

\* A variant of transformationSample that adds to the sample already stored
transformationSample_Additive(pairs, limit) ==
    (IF IsSome(log.transformationDetails) THEN Get(log.transformationDetails) ELSE << >>)
    \o (IF limit > 0 THEN sliceTo(pairs, limit) ELSE pairs)

\* log.transformationDetails after recordTransformations(pairs, limit)
transformationSample(pairs, limit) == IF limit > 0 THEN sliceTo(pairs, limit) ELSE pairs

RECURSIVE rowsOutflow(_)
\* the sum the loop of recordOutput adds to log.totalOutflow
rowsOutflow(rows) ==
    IF Len(rows) = 0 THEN 0
    ELSE rowsOutflow(Front(rows)) + parseFloatOrZero(Last(rows).outflow)

RECURSIVE rowsInflow(_)
rowsInflow(rows) ==
    IF Len(rows) = 0 THEN 0
    ELSE rowsInflow(Front(rows)) + parseFloatOrZero(Last(rows).inflow)

\* createHash("sha256").update(csvContent).digest("hex").slice(0, 16): the
\* first 16 hexadecimal digits of the digest of the content
\* a digest that is also fed what the recorder held before
checksumOf_Chained(csvContent) ==
    [digest |-> "sha256", of |-> <<log.checksum, csvContent>>, hexDigits |-> 16]

checksumOf(csvContent) == [digest |-> "sha256", of |-> csvContent, hexDigits |-> 16]

\* formatCurrency(amount): the shekel sign and the amount with two decimals
\* and a comma between groups of three digits
RECURSIVE groupDigits(_)
groupDigits(digits) ==
    IF Len(digits) <= 3 THEN digits
    ELSE groupDigits(SubSeq(digits, 1, Len(digits) - 3)) \o <<",">>
         \o SubSeq(digits, Len(digits) - 2, Len(digits))

formatCurrency(amount) ==
    <<"shekel">> \o groupDigits(NatToStr(amount \div 100)) \o <<".">>
    \o padStart2(NatToStr(amount % 100))

\* date.split("T")[0]
RECURSIVE beforeT(_)
beforeT(s) ==
    IF Len(s) = 0 \/ s[1] = "T" THEN << >> ELSE <<s[1]>> \o beforeT(Tail(s))

\* A line of the report is a tuple: the fixed text and the values put in it.
Blank == <<"">>

accountLine(account) ==
    <<"  name: count transactions (outflow out, inflow in)", account.name,
      account.transactionCount, formatCurrency(account.totalOutflow),
      formatCurrency(account.totalInflow)>>

skippedLine(skipped) ==
    <<"  - reason: description amount (date)", skipped.reason, skipped.description,
      formatCurrency(Abs(skipped.amount)), beforeT(skipped.date)>>

accountsSection(log_) ==
    <<<<"Accounts:">>>>
    \o (IF Len(log_.accounts) = 0 THEN <<<<"  (none)">>>>
        ELSE [i \in 1..Len(log_.accounts) |-> accountLine(log_.accounts[i])])
    \o <<Blank>>

skippedSection(log_) ==
    <<<<"Skipped (N):", Len(log_.skipped)>>>>
    \o (IF Len(log_.skipped) = 0 THEN <<<<"  (none)">>>>
        ELSE [i \in 1..Len(log_.skipped) |-> skippedLine(log_.skipped[i])])
    \o <<Blank>>

\* formatAuditLog of a recorder that shows the output details whenever
\* recordOutput was called, reference or not
outputSection_WheneverRecorded(log_) ==
    IF IsSome(log_.checksum)
    THEN << <<"Output: file", log_.outputFile>>,
            <<"  N transactions", log_.outputTransactionCount>>,
            <<"  Total: outflow, inflow", formatCurrency(log_.totalOutflow),
              formatCurrency(log_.totalInflow)>>,
            Blank,
            <<"Checksum: ", log_.checksum>> >>
    ELSE << <<"Output: (none - dry run or no transactions)">> >>

outputSection(log_) ==
    IF TruthyAtom(log_.outputFile)
    THEN << <<"Output: file", Get(log_.outputFile)>>,
            <<"  N transactions", log_.outputTransactionCount>>,
            <<"  Total: outflow, inflow", formatCurrency(log_.totalOutflow),
              formatCurrency(log_.totalInflow)>>,
            Blank,
            <<"Checksum: ", log_.checksum>> >>
    ELSE << <<"Output: (none - dry run or no transactions)">> >>

\* log.detailedLoggingLimit && log.detailedLoggingLimit > 0
LimitShown(log_) ==
    IsSome(log_.detailedLoggingLimit) /\ Get(log_.detailedLoggingLimit) > 0

\* the lines of one element of rawScraperResults
rawResultLines(result) ==
    << <<"Account: ", result.accountName>>, <<"  Success: ", result.success>> >>
    \o (IF TruthyAtom(result.error) THEN << <<"  Error: ", Get(result.error)>> >> ELSE << >>)
    \o << <<"  Transactions (N):", Len(result.transactions)>> >>
    \o [i \in 1..Len(result.transactions) |-> <<"    [i] raw transaction", i, result.transactions[i]>>]
    \o <<Blank>>

RECURSIVE rawResultsLines(_)
rawResultsLines(results) ==
    IF Len(results) = 0 THEN << >>
    ELSE rawResultsLines(Front(results)) \o rawResultLines(Last(results))

rawSection(log_) ==
    IF IsSome(log_.rawScraperResults) /\ Len(Get(log_.rawScraperResults)) > 0
    THEN << Blank, <<"=== DETAILED LOGGING ===">>, Blank, <<"Raw Scraper Results:">>,
            IF LimitShown(log_)
            THEN <<"  (Showing first N transaction(s) per account)", Get(log_.detailedLoggingLimit)>>
            ELSE <<"  (Showing all transactions)">>,
            Blank >>
         \o rawResultsLines(Get(log_.rawScraperResults))
    ELSE << >>

pairLines(i, pair) ==
    << <<"[i] RAW:", i>>, <<"    raw transaction", pair.raw>>, <<"    TRANSFORMED:">>,
       <<"    row", pair.transformed>>, Blank >>

RECURSIVE pairsLines(_)
pairsLines(pairs) ==
    IF Len(pairs) = 0 THEN << >>
    ELSE pairsLines(Front(pairs)) \o pairLines(Len(pairs), Last(pairs))

transformationSection(log_) ==
    IF IsSome(log_.transformationDetails) /\ Len(Get(log_.transformationDetails)) > 0
    THEN << Blank, <<"Transformation Details:">>,
            IF LimitShown(log_)
            THEN <<"  (Showing first N transformation(s))", Get(log_.detailedLoggingLimit)>>
            ELSE <<"  (Showing all transformations)">>,
            Blank >>
         \o pairsLines(Get(log_.transformationDetails))
    ELSE << >>

\* formatAuditLog(log): the lines joined by "\n"
formatAuditLog(log_) ==
    << <<"=== Scrape Run: timestamp ===", log_.timestamp>>, Blank >>
    \o accountsSection(log_)
    \o skippedSection(log_)
    \o outputSection(log_)
    \o rawSection(log_)
    \o transformationSection(log_)

-----------------------------------------------------------------------------
(* Inputs of the recorder operations.                                      *)

Expense == [BaseTxn EXCEPT !.description = <<Word(1)>>]
Income == [BaseTxn EXCEPT !.description = <<Word(2)>>, !.chargedAmount = Some(50000),
                          !.processedDate = Some(AtPlus2(2024, 3, 16))]
Pending == [BaseTxn EXCEPT !.status = "pending", !.chargedAmount = Some(-123456)]
Cancelled == [BaseTxn EXCEPT !.chargedAmount = Some(0), !.processedDate = None, !.date = None]

ScrapeResult(accountName, success, transactions, error) ==
    [accountName |-> accountName, success |-> success,
     transactions |-> transactions, error |-> error]

ResultLists ==
    { << >>,
      << ScrapeResult("Max", TRUE, <<Expense, Income, Pending>>, None) >>,
      << ScrapeResult("Leumi", FALSE, << >>, Some("Login failed")),
         ScrapeResult("Max", TRUE, <<Cancelled, Expense>>, None) >> }

RawLimits == { 0, 1 }

SkippedCalls == { <<Pending, "Pending">>, <<Cancelled, "Zero amount">> }

ExpenseRow ==
    [date |-> PlainDate(2024, 3, 15), payee |-> <<Word(1)>>, memo |-> << >>,
     outflow |-> <<"1", "5", "0", ".", "0", "0">>, inflow |-> << >>]
IncomeRow ==
    [date |-> PlainDate(2024, 3, 16), payee |-> <<Word(2)>>, memo |-> << >>,
     outflow |-> << >>, inflow |-> <<"5", "0", "0", "0", ".", "0", "0">>]

PairLists ==
    { << >>,
      << [raw |-> Expense, transformed |-> ExpenseRow],
         [raw |-> Income, transformed |-> IncomeRow] >> }

SampleLimits == { -1, 0, 1, 3 }

RowLists == { << >>, <<ExpenseRow, IncomeRow>> }

OutputPaths == { "/output/test.csv" }

\* The rows and the reference recordOutput is called with: the path of the
\* written file, or no reference with no rows, which is how the export route
\* calls it when it wrote no file (csvPaths[0] of an empty csvPaths)
OutputCalls ==
    { <<rows, Some(outputPath)>> : rows \in RowLists, outputPath \in OutputPaths }
    \cup { << << >>, None >> }

CsvContents == { "csv content here", "other csv content" }

-----------------------------------------------------------------------------
(* The operations of one recorder.                                         *)

RecordScrapeResults ==
    /\ ops < MaxOps
    /\ \E results \in ResultLists :
         /\ log' = [log EXCEPT !.accounts = recordScrapeResults(log.accounts, results)]
         /\ call' = [op |-> "recordScrapeResults", results |-> results, before |-> log]
    /\ formatted' = None
    /\ ops' = ops + 1
    /\ UNCHANGED <<tz, other, es>>

RecordRawScrapeResults ==
    /\ ops < MaxOps
    /\ \E results \in ResultLists, limit \in RawLimits :
         /\ log' = [log EXCEPT !.detailedLoggingLimit = Some(limit),
                               !.rawScraperResults = Some(rawResults(results, limit))]
         /\ call' = [op |-> "recordRawScrapeResults", results |-> results,
                     limit |-> limit, before |-> log]
    /\ formatted' = None
    /\ ops' = ops + 1
    /\ UNCHANGED <<tz, other, es>>

\* A variant of RecordSkipped that keeps the last skipped item only
RecordSkipped_KeepsLastOnly ==
    /\ ops < MaxOps
    /\ \E c \in SkippedCalls :
         /\ log' = [log EXCEPT !.skipped = <<skippedEntry(c[1], c[2])>>]
         /\ call' = [op |-> "recordSkipped", txn |-> c[1], reason |-> c[2], before |-> log]
    /\ formatted' = None
    /\ ops' = ops + 1
    /\ UNCHANGED <<tz, other, es>>

RecordSkipped ==
    /\ ops < MaxOps
    /\ \E c \in SkippedCalls :
         /\ log' = [log EXCEPT !.skipped = Append(log.skipped, skippedEntry(c[1], c[2]))]
         /\ call' = [op |-> "recordSkipped", txn |-> c[1], reason |-> c[2], before |-> log]
    /\ formatted' = None
    /\ ops' = ops + 1
    /\ UNCHANGED <<tz, other, es>>

RecordTransformations ==
    /\ ops < MaxOps
    /\ \E pairs \in PairLists, limit \in SampleLimits :
         /\ log' = [log EXCEPT !.transformationDetails = Some(transformationSample(pairs, limit))]
         /\ call' = [op |-> "recordTransformations", pairs |-> pairs, limit |-> limit,
                     before |-> log]
    /\ formatted' = None
    /\ ops' = ops + 1
    /\ UNCHANGED <<tz, other, es>>

RecordOutput ==
    /\ ops < MaxOps
    /\ \E c \in OutputCalls, csvContent \in CsvContents :
         /\ log' = [log EXCEPT !.outputFile = c[2],
                               !.outputTransactionCount = Len(c[1]),
                               !.totalOutflow = log.totalOutflow + rowsOutflow(c[1]),
                               !.totalInflow = log.totalInflow + rowsInflow(c[1]),
                               !.checksum = Some(checksumOf(csvContent))]
         /\ call' = [op |-> "recordOutput", rows |-> c[1], outputPath |-> c[2],
                     csvContent |-> csvContent, before |-> log]
    /\ formatted' = None
    /\ ops' = ops + 1
    /\ UNCHANGED <<tz, other, es>>

\* A variant of Format that drops the sample once it is written
Format_DropsSample ==
    /\ formatted' = Some(formatAuditLog(log))
    /\ log' = [log EXCEPT !.transformationDetails = None]
    /\ call' = [op |-> "format", before |-> log, previous |-> formatted]
    /\ UNCHANGED <<tz, ops, other, es>>

\* format(): formatAuditLog(log); call keeps the text of the call before it,
\* if no recorder operation came between
Format ==
    /\ formatted' = Some(formatAuditLog(log))
    /\ call' = [op |-> "format", before |-> log, previous |-> formatted]
    /\ UNCHANGED <<tz, log, ops, other, es>>

-----------------------------------------------------------------------------
(* The configuration (validateDaysBack) and the server's routes.           *)
(* A value a caller passes where the code takes `unknown` is a record of   *)
(* its type and content; a number is counted in tenths so that 0.5 and 1.5 *)
(* are values, and NaN is a number with the nan mark.                      *)

JsValue(type, nan, tenths, chars) ==
    [type |-> type, nan |-> nan, tenths |-> tenths, chars |-> chars]
Undefined == JsValue("undefined", FALSE, 0, << >>)
Null == JsValue("null", FALSE, 0, << >>)
NumberOf(tenths) == JsValue("number", FALSE, tenths, << >>)
NaN == JsValue("number", TRUE, 0, << >>)
StringOf(chars) == JsValue("string", FALSE, 0, chars)

DEFAULT_DAYS_BACK == 60

\* parseInt(s, 10): white space is skipped, then a sign and the longest run
\* of digits are read; NaN when there is no digit
RECURSIVE skipWhiteSpace(_)
skipWhiteSpace(s) == IF Len(s) > 0 /\ s[1] = " " THEN skipWhiteSpace(Tail(s)) ELSE s

RECURSIVE leadingDigits(_)
leadingDigits(s) ==
    IF Len(s) > 0 /\ IsDigit(s[1]) THEN <<s[1]>> \o leadingDigits(Tail(s)) ELSE << >>

unsignedInt(s) ==
    IF Len(leadingDigits(s)) = 0 THEN NaN ELSE NumberOf(StrToNat(leadingDigits(s)) * 10)

negated(num) == IF num.nan THEN num ELSE NumberOf(-num.tenths)

signedInt(s) ==
    IF Len(s) > 0 /\ s[1] = "-" THEN negated(unsignedInt(Tail(s)))
    ELSE IF Len(s) > 0 /\ s[1] = "+" THEN unsignedInt(Tail(s))
    ELSE unsignedInt(s)

parseInt(s) == signedInt(skipWhiteSpace(s))

\* typeof value === "string" ? parseInt(value, 10) : Number(value), for a
\* string or a number
toNumber(value) == IF value.type = "string" THEN parseInt(value.chars) ELSE value

\* A variant of validateDaysBack that refuses negative numbers only
validateDaysBack_ZeroAllowed(value) ==
    IF value.type \in {"undefined", "null"}
    THEN [threw |-> FALSE, value |-> NumberOf(DEFAULT_DAYS_BACK * 10), message |-> << >>]
    ELSE IF toNumber(value).nan \/ toNumber(value).tenths < 0
    THEN [threw |-> TRUE, value |-> Undefined,
          message |-> <<"Invalid daysBack value: ", value, ". Must be a positive number.">>]
    ELSE [threw |-> FALSE, value |-> toNumber(value), message |-> << >>]

\* validateDaysBack(value): [threw, value, message]
validateDaysBack(value) ==
    IF value.type \in {"undefined", "null"}
    THEN [threw |-> FALSE, value |-> NumberOf(DEFAULT_DAYS_BACK * 10), message |-> << >>]
    ELSE IF toNumber(value).nan \/ toNumber(value).tenths < 10
    THEN [threw |-> TRUE, value |-> Undefined,
          message |-> <<"Invalid daysBack value: ", value, ". Must be a positive number.">>]
    ELSE [threw |-> FALSE, value |-> toNumber(value), message |-> << >>]

\* The values validateDaysBack is called with: absent, numbers (whole,
\* fractional, zero, negative, NaN) and strings (digits, with a sign, a
\* fraction, white space or letters, and empty)
DaysBackValues ==
    { Undefined, Null, NaN }
    \cup { NumberOf(t) : t \in { -50, 0, 5, 10, 15, 450, 4000 } }
    \cup { StringOf(s) : s \in { <<"3", "0">>, <<"9", "0">>, <<"a", "b", "c">>, <<"0">>,
                                 <<"-", "5">>, << >>, <<" ", "7">>, <<"+", "1">>,
                                 <<"3", "0", "a", "b", "c">>, <<"1", ".", "5">>,
                                 <<"0", ".", "5">> } }

ValidateDaysBack ==
    /\ call.op = "none"
    /\ \E value \in DaysBackValues :
         call' = [op |-> "validateDaysBack", value |-> value,
                  result |-> validateDaysBack(value)]
    /\ UNCHANGED <<tz, log, formatted, ops, other, es>>

-----------------------------------------------------------------------------
(* POST /export.  The memo of a row is a text: the model writes the text   *)
(* JSON.stringify gives for an object as the sequence of the object's      *)
(* <<key, value>> entries, the empty text as the empty sequence, the text  *)
(* "null" and a text that is not JSON as one element that is no entry.     *)

NullText == << <<"null">> >>
NotJsonText == << <<"not json">> >>

\* JSON.parse(text): [threw, isNull, entries]
IsObjectText(text) == Len(text) > 0 /\ \A i \in 1..Len(text) : Len(text[i]) = 2
IsNullText(text) == Len(text) = 1 /\ Len(text[1]) = 1 /\ text[1][1] = "null"
JSONparse(text) ==
    IF IsObjectText(text) THEN [threw |-> FALSE, isNull |-> FALSE, entries |-> text]
    ELSE IF IsNullText(text) THEN [threw |-> FALSE, isNull |-> TRUE, entries |-> << >>]
    ELSE [threw |-> TRUE, isNull |-> FALSE, entries |-> << >>]

\* memo.source of a parsed object: the value of the entry, "" standing for
\* undefined (both are falsy)
HasSourceEntry(entries) == \E i \in 1..Len(entries) : entries[i][1] = "source"
sourceOf(entries) ==
    IF HasSourceEntry(entries)
    THEN entries[CHOOSE i \in 1..Len(entries) : entries[i][1] = "source"][2]
    ELSE ""

\* let account = "unknown"; try { const memo = JSON.parse(row.memo);
\* if (memo.source) account = memo.source; } catch {}: reading a property of
\* null throws as an unparseable text does
accountOfParsed(parsed) ==
    IF parsed.threw \/ parsed.isNull THEN "unknown"
    ELSE IF sourceOf(parsed.entries) # "" THEN sourceOf(parsed.entries)
    ELSE "unknown"

accountOfRow(row) == accountOfParsed(JSONparse(row.memo))

\* const list = byAccount.get(account) ?? []; list.push(row);
\* byAccount.set(account, list), on the ordered map byAccount, a sequence of
\* entries [key, rows]
pushToBucket(byAccount, account, row) ==
    IF HasKey(byAccount, account)
    THEN [byAccount EXCEPT ![KeyIndex(byAccount, account)].rows = Append(@, row)]
    ELSE Append(byAccount, [key |-> account, rows |-> <<row>>])

RECURSIVE groupBySource(_)
groupBySource(rows) ==
    IF Len(rows) = 0 THEN << >>
    ELSE pushToBucket(groupBySource(Front(rows)), accountOfRow(Last(rows)), Last(rows))

\* the characters of the account names of the model
Spelling(name) ==
    CASE name = "Max" -> <<"M", "a", "x">>
      [] name = "max" -> <<"m", "a", "x">>
      [] name = "Leumi" -> <<"L", "e", "u", "m", "i">>
      [] name = "Visa Cal" -> <<"V", "i", "s", "a", " ", "C", "a", "l">>
      [] name = "unknown" -> <<"u", "n", "k", "n", "o", "w", "n">>

UpperCase ==
    <<"A", "B", "C", "D", "E", "F", "G", "H", "I", "J", "K", "L", "M",
      "N", "O", "P", "Q", "R", "S", "T", "U", "V", "W", "X", "Y", "Z">>
LowerCase ==
    <<"a", "b", "c", "d", "e", "f", "g", "h", "i", "j", "k", "l", "m",
      "n", "o", "p", "q", "r", "s", "t", "u", "v", "w", "x", "y", "z">>

IsUpper(c) == \E i \in 1..Len(UpperCase) : UpperCase[i] = c
IsLower(c) == \E i \in 1..Len(LowerCase) : LowerCase[i] = c
toLowerCase(c) ==
    IF IsUpper(c) THEN LowerCase[CHOOSE i \in 1..Len(UpperCase) : UpperCase[i] = c] ELSE c

\* accountName.replace(/[^a-zA-Z0-9]/g, "-").toLowerCase()
safeChar(c) == IF IsUpper(c) \/ IsLower(c) \/ IsDigit(c) THEN toLowerCase(c) ELSE "-"
safeNameOf(chars) == [i \in 1..Len(chars) |-> safeChar(chars[i])]
safeName(accountName) == safeNameOf(Spelling(accountName))

\* generateFilename(prefix) of csv-writer: the name of a file made of the
\* prefix; what else is in the name (the day of the run) is the same for
\* the calls of one request
generateFilename(prefix) == [prefix |-> prefix, extension |-> ".csv"]
DefaultPrefix == <<"y", "n", "a", "b">>

\* toCSV(rows) of csv-writer: the text of the rows
toCSV(rows) == [csv |-> rows]

\* join(outputDir, filename)
join(outputDir, filename) == [dir |-> outputDir, name |-> filename]

\* writeFileSync(path, content) on the files of the disk, a sequence of
\* entries [path, content] with one entry per path: an existing file is
\* replaced
HasFile(files, path) == \E i \in 1..Len(files) : files[i].path = path
writeFileSync(files, path, content) ==
    IF HasFile(files, path)
    THEN [files EXCEPT ![CHOOSE i \in 1..Len(files) : files[i].path = path].content = content]
    ELSE Append(files, [path |-> path, content |-> content])

\* the path of the file of one bucket
bucketPath(outputDir, accountName) ==
    join(outputDir, generateFilename(<<"y", "n", "a", "b", "-">> \o safeName(accountName)))

\* for (const [accountName, accountRows] of byAccount) { ... writeFileSync;
\* csvPaths.push(outputPath) }: [files, csvPaths]
RECURSIVE writeBuckets(_, _)
writeBuckets(outputDir, byAccount) ==
    IF Len(byAccount) = 0 THEN [files |-> << >>, csvPaths |-> << >>]
    ELSE [files |-> writeFileSync(writeBuckets(outputDir, Front(byAccount)).files,
                                  bucketPath(outputDir, Last(byAccount).key),
                                  toCSV(Last(byAccount).rows)),
          csvPaths |-> Append(writeBuckets(outputDir, Front(byAccount)).csvPaths,
                              bucketPath(outputDir, Last(byAccount).key))]

\* the files written and their paths, split by account or in one file
writeRows(outputDir, split, rows) ==
    IF split THEN writeBuckets(outputDir, groupBySource(rows))
    ELSE [files |-> <<[path |-> join(outputDir, generateFilename(DefaultPrefix)),
                       content |-> toCSV(rows)]>>,
          csvPaths |-> <<join(outputDir, generateFilename(DefaultPrefix))>>]

\* csvPaths.length > 1 ? csvPaths.join(", ") : csvPaths[0]: undefined when
\* no file was written; the text of a reference stands for the paths in it
outputReference(csvPaths) ==
    IF Len(csvPaths) = 0 THEN None
    ELSE IF Len(csvPaths) = 1 THEN Some("csvPaths[0]")
    ELSE Some("csvPaths.join")

\* the audit log saved when the request brings one: a copy with the output
\* fields set
withOutput(auditLog, rows, csvPaths) ==
    [auditLog EXCEPT !.outputFile = outputReference(csvPaths),
                     !.outputTransactionCount = Len(rows),
                     !.totalOutflow = auditLog.totalOutflow + rowsOutflow(rows),
                     !.totalInflow = auditLog.totalInflow + rowsInflow(rows),
                     !.checksum = Some(checksumOf(toCSV(rows)))]

\* scrapeResults.map(...): the results of the request with no transactions
withoutTransactions(scrapeResults) ==
    [i \in 1..Len(scrapeResults) |->
       ScrapeResult(scrapeResults[i].accountName, scrapeResults[i].success, << >>,
                    scrapeResults[i].error)]

\* for (const item of skipped) auditLogger.recordSkipped(item.txn, item.reason)
recordAllSkipped(skipped) ==
    [i \in 1..Len(skipped) |-> skippedEntry(skipped[i].txn, skipped[i].reason)]

\* the audit log of the new recorder made when the request brings none
fallbackLog(body) ==
    [NewLog EXCEPT
       !.accounts = IF IsSome(body.scrapeResults)
                    THEN recordScrapeResults(<< >>, withoutTransactions(Get(body.scrapeResults)))
                    ELSE << >>,
       !.skipped = IF IsSome(body.skipped) THEN recordAllSkipped(Get(body.skipped)) ELSE << >>]

logToSave(body, csvPaths) ==
    IF IsSome(body.auditLog) THEN withOutput(Get(body.auditLog), Get(body.rows), csvPaths)
    ELSE withOutput(fallbackLog(body), Get(body.rows), csvPaths)

\* the response once the files are written: the audit log is rendered with
\* formatAuditLog and written to ./logs
exported(body, written) ==
    [status   |-> 200,
     csvPaths |-> written.csvPaths,
     files    |-> written.files,
     auditLog |-> Some(logToSave(body, written.csvPaths)),
     report   |-> Some(formatAuditLog(logToSave(body, written.csvPaths)))]

\* POST /export: [status, csvPaths, files, auditLog, report]
export(body) ==
    IF IsNone(body.rows) \/ body.outputDir = ""
    THEN [status |-> 400, csvPaths |-> << >>, files |-> << >>, auditLog |-> None,
          report |-> None]
    ELSE exported(body, writeRows(body.outputDir, body.split, Get(body.rows)))

-----------------------------------------------------------------------------
(* The scraper (scraper.ts).  What the bank's scraper does for an account  *)
(* is given by a scrape: the progress payloads it reports and then either a *)
(* result with success and bank accounts, a result without success, or an   *)
(* exception of createScraper or scrape.  A message given to onProgress is  *)
(* a tuple that starts with its fixed text; trace notes where the scrape of *)
(* an account begins and where it has settled.                              *)

\* error instanceof Error ? error.message : String(error)
messageOf(thrown) == IF thrown.isError THEN thrown.message ELSE thrown.text

\* `  [${account.name}] ${payload.type}` for each payload of the scraper
progressMessages(account, progress) ==
    [i \in 1..Len(progress) |-> <<"progress", account.name, progress[i]>>]

\* { ...txn, accountNumber: bankAccount.accountNumber, accountName: account.name }
enrich(txn, bankAccount, account) ==
    [txn EXCEPT !.accountNumber = Some(bankAccount.accountNumber),
                !.accountName = Some(account.name)]

enrichAll(bankAccount, account) ==
    [i \in 1..Len(bankAccount.txns) |-> enrich(bankAccount.txns[i], bankAccount, account)]

\* the loop over result.accounts ?? []: [transactions, messages]
RECURSIVE collectAccounts(_, _)
collectAccounts(bankAccounts, account) ==
    IF Len(bankAccounts) = 0 THEN [transactions |-> << >>, messages |-> << >>]
    ELSE [transactions |->
              collectAccounts(Front(bankAccounts), account).transactions
              \o enrichAll(Last(bankAccounts), account),
          messages |->
              Append(collectAccounts(Front(bankAccounts), account).messages,
                     <<"Found", Len(Last(bankAccounts).txns),
                       Last(bankAccounts).accountNumber>>)]

\* the return of a scrape with success
succeeded(account, collected) ==
    [result   |-> ScrapeResult(account.name, TRUE, collected.transactions, None),
     messages |-> Append(collected.messages,
                         <<"Total", Len(collected.transactions), account.name>>)]

\* the return of a scrape without success, and the one of the catch block
failed(account, error, note) ==
    [result   |-> ScrapeResult(account.name, FALSE, << >>, Some(error)),
     messages |-> <<note>>]

\* the try block once the scraper has settled
settled(account, scrape) ==
    IF scrape.kind = "throws"
    THEN failed(account, messageOf(scrape.thrown), <<"Exception", messageOf(scrape.thrown)>>)
    ELSE IF ~scrape.success
    THEN failed(account, scrape.errorType \o ": " \o scrape.errorMessage,
                <<"Error", scrape.errorType, scrape.errorMessage>>)
    ELSE succeeded(account,
                   collectAccounts(IF IsSome(scrape.accounts) THEN Get(scrape.accounts)
                                   ELSE << >>, account))

\* scrapeAccount(account, startDate, showBrowser, onProgress): [result, messages]
scrapeAccount(account, scrape) ==
    [result   |-> settled(account, scrape).result,
     messages |-> <<<<"Scraping", account.name>>>>
                  \o progressMessages(account, scrape.progress)
                  \o settled(account, scrape).messages]

\* A variant of enabledAccounts that takes every configured account
enabledAccounts_Everyone(accounts) == accounts

\* accounts.filter((a) => a.enabled)
enabledAccounts(accounts) == SelectSeq(accounts, LAMBDA a : a.enabled)

\* results.push(await scrapeAccount(...)): the scrape begins, settles, and
\* its result is pushed before the loop goes on
pushResult(front, account, scraped) ==
    [results  |-> Append(front.results, scraped.result),
     messages |-> front.messages \o scraped.messages,
     trace    |-> front.trace \o << <<"begin", account.name>>, <<"settled", account.name>> >>]

\* the loop over enabledAccounts; scrapers gives the scrape of each account
RECURSIVE scrapeEach(_, _)
scrapeEach(enabled, scrapers) ==
    IF Len(enabled) = 0 THEN [results |-> << >>, messages |-> << >>, trace |-> << >>]
    ELSE pushResult(scrapeEach(Front(enabled), scrapers), Last(enabled),
                    scrapeAccount(Last(enabled), scrapers[Last(enabled).name]))

failedResults(results) == SelectSeq(results, LAMBDA r : ~r.success)
successfulResults(results) == SelectSeq(results, LAMBDA r : r.success)

RECURSIVE totalTxns(_)
totalTxns(results) ==
    IF Len(results) = 0 THEN 0
    ELSE totalTxns(Front(results)) + Len(Last(results).transactions)

\* the lines of the summary
summaryMessages(results) ==
    << <<"--- Summary ---">>,
       <<"Successful", Len(successfulResults(results)), Len(results)>>,
       <<"Total transactions", totalTxns(results)>> >>
    \o (IF Len(failedResults(results)) > 0
        THEN << <<"Failed accounts:">> >>
             \o [i \in 1..Len(failedResults(results)) |->
                   <<"failed", failedResults(results)[i].accountName,
                     Get(failedResults(results)[i].error)>>]
        ELSE << >>)

\* the body of scrapeAllAccounts for the enabled accounts
scrapeEnabled(enabled, each) ==
    IF Len(enabled) = 0
    THEN [results |-> << >>, messages |-> << <<"No accounts enabled for scraping.">> >>,
          trace |-> << >>]
    ELSE [results  |-> each.results,
          messages |-> << <<"Scraping", Len(enabled)>>, <<"Start date">> >>
                       \o each.messages \o summaryMessages(each.results),
          trace    |-> each.trace]

\* scrapeAllAccounts(accounts, startDate, showBrowser, onProgress):
\* [results, messages, trace]
scrapeAllAccounts(accounts, scrapers) ==
    scrapeEnabled(enabledAccounts(accounts),
                  scrapeEach(enabledAccounts(accounts), scrapers))

\* The accounts of the configuration and the scrapes of the banks
AccountNames == { "Max", "Leumi" }

AccountConfig(name, enabled) == [name |-> name, enabled |-> enabled]

AccountLists ==
    { << >> }
    \cup { <<AccountConfig(n, e)>> : n \in AccountNames, e \in BOOLEAN }
    \cup { <<AccountConfig(n[1], e1), AccountConfig(n[2], e2)>> :
             n \in { <<"Max", "Leumi">>, <<"Leumi", "Max">> }, e1 \in BOOLEAN, e2 \in BOOLEAN }

\* a transaction as the bank's scraper gives it: no account name yet
Scraped(txn) == [txn EXCEPT !.accountName = None, !.accountNumber = None]

Scrape(kind, success, accounts, progress, errorType, errorMessage, thrown) ==
    [kind |-> kind, success |-> success, accounts |-> accounts, progress |-> progress,
     errorType |-> errorType, errorMessage |-> errorMessage, thrown |-> thrown]

NothingThrown == [isError |-> TRUE, message |-> "", text |-> ""]

\* two bank accounts with transactions, a success without accounts, a result
\* without success, an Error thrown by scrape, an Error without a message and
\* a thrown string
Scrapes ==
    { Scrape("result", TRUE,
             Some(<< [accountNumber |-> "1234", txns |-> <<Scraped(Expense), Scraped(Pending)>>],
                     [accountNumber |-> "5678", txns |-> <<Scraped(Income)>>] >>),
             <<"START_SCRAPING", "END_SCRAPING">>, "", "", NothingThrown),
      Scrape("result", TRUE, None, << >>, "", "", NothingThrown),
      Scrape("result", FALSE, None, <<"LOGIN_FAILED">>, "INVALID_PASSWORD", "wrong password",
             NothingThrown),
      Scrape("throws", FALSE, None, <<"START_SCRAPING">>, "", "",
             [isError |-> TRUE, message |-> "net::ERR_TIMED_OUT", text |-> ""]),
      Scrape("throws", FALSE, None, << >>, "", "",
             [isError |-> TRUE, message |-> "", text |-> ""]),
      Scrape("throws", FALSE, None, << >>, "", "",
             [isError |-> FALSE, message |-> "", text |-> "browser closed"]) }

ScrapeAccount ==
    /\ call.op = "none"
    /\ \E account \in { AccountConfig(n, e) : n \in AccountNames, e \in BOOLEAN },
          scrape \in Scrapes :
         call' = [op |-> "scrapeAccount", account |-> account, scrape |-> scrape,
                  result |-> scrapeAccount(account, scrape)]
    /\ UNCHANGED <<tz, log, formatted, ops, other, es>>

ScrapeAllAccounts ==
    /\ call.op = "none"
    /\ \E accounts \in AccountLists, scrapers \in [AccountNames -> Scrapes] :
         call' = [op |-> "scrapeAllAccounts", accounts |-> accounts, scrapers |-> scrapers,
                  result |-> scrapeAllAccounts(accounts, scrapers)]
    /\ UNCHANGED <<tz, log, formatted, ops, other, es>>

-----------------------------------------------------------------------------
(* GET /scrape/stream.                                                     *)

\* allRawTransactions: the transactions of the successful results
RECURSIVE allRawTransactions(_)
allRawTransactions(results) ==
    IF Len(results) = 0 THEN << >>
    ELSE allRawTransactions(Front(results))
         \o (IF Last(results).success THEN Last(results).transactions ELSE << >>)

\* the loop over kept: transformationPairs.push({ raw: txn, transformed: row })
\* for each row; [threw, pairs]
pushPair(front, txn, r) ==
    IF front.threw \/ r.threw THEN [threw |-> TRUE, pairs |-> << >>]
    ELSE IF IsSome(r.row)
    THEN [threw |-> FALSE, pairs |-> Append(front.pairs, [raw |-> txn, transformed |-> Get(r.row)])]
    ELSE front

RECURSIVE collectPairs(_)
collectPairs(kept) ==
    IF Len(kept) = 0 THEN [threw |-> FALSE, pairs |-> << >>]
    ELSE pushPair(collectPairs(Front(kept)), Last(kept), transformTransaction(Last(kept)))

rowsOfPairs(pairs) == [i \in 1..Len(pairs) |-> pairs[i].transformed]

\* the log of the run's recorder when the done event is sent:
\* recordRawScrapeResults and recordTransformations under detailed logging,
\* then recordScrapeResults
streamAuditLog(results, enableDetailedLogging, detailedLoggingLimit, pairs) ==
    [NewLog EXCEPT
       !.detailedLoggingLimit =
          IF enableDetailedLogging THEN Some(detailedLoggingLimit) ELSE None,
       !.rawScraperResults =
          IF enableDetailedLogging THEN Some(rawResults(results, detailedLoggingLimit)) ELSE None,
       !.transformationDetails =
          IF enableDetailedLogging /\ Len(pairs) > 0
          THEN Some(transformationSample(pairs, detailedLoggingLimit)) ELSE None,
       !.accounts = recordScrapeResults(<< >>, results)]

\* scrapeResults of the payload
resultInfo(results) ==
    [i \in 1..Len(results) |->
       [accountName |-> results[i].accountName, success |-> results[i].success,
        transactionCount |-> Len(results[i].transactions), error |-> results[i].error]]

accountDoneEvents(results) ==
    [i \in 1..Len(results) |-> [type |-> "account-done", accountName |-> results[i].accountName]]

NoPayload == None

\* the payload of the done event
payloadOf(results, partition, pairs, enableDetailedLogging, detailedLoggingLimit) ==
    [scrapeResults |-> resultInfo(results),
     kept          |-> partition.kept,
     skipped       |-> partition.skipped,
     rows          |-> sortRows(rowsOfPairs(pairs)),
     summary       |-> calculateSummary(partition.kept),
     auditLog      |-> streamAuditLog(results, enableDetailedLogging, detailedLoggingLimit,
                                      pairs)]

\* the handler from the results of scrapeAllAccounts on: [events, payload]
processed(results, partition, collected, enableDetailedLogging, detailedLoggingLimit) ==
    IF collected.threw
    THEN [events  |-> Append(accountDoneEvents(results), [type |-> "error", accountName |-> ""]),
          payload |-> NoPayload]
    ELSE [events  |-> Append(accountDoneEvents(results), [type |-> "done", accountName |-> ""]),
          payload |-> Some(payloadOf(results, partition, collected.pairs,
                                     enableDetailedLogging, detailedLoggingLimit))]

\* parseInt(req.query.daysBack as string) || 60
queryDaysBack(query) ==
    IF IsNone(query) \/ parseInt(Get(query)).nan \/ parseInt(Get(query)).tenths = 0
    THEN NumberOf(60 * 10)
    ELSE parseInt(Get(query))

\* an event without an account: a warning, a progress message, or the error
plainEvent(type) == [type |-> type, accountName |-> ""]

\* the warnings of loadConfig: daysBack above 365, and no enabled account
configWarnings(daysBack, accounts) ==
    (IF daysBack.tenths > 365 * 10 THEN <<"daysBack is very large">> ELSE << >>)
    \o (IF Len(enabledAccounts(accounts)) = 0
        THEN <<"No accounts have credentials configured">> ELSE << >>)

\* sendEvent({ type: "warning", message: warning }) for each warning
warningEvents(warnings) == [i \in 1..Len(warnings) |-> plainEvent("warning")]

\* sendEvent({ type: "progress", message }) for each message of the scrape
progressEvents(messages) == [i \in 1..Len(messages) |-> plainEvent("progress")]

\* the events written before the results are processed, then those of the
\* processing
after(earlier, response) == [response EXCEPT !.events = earlier \o @]

\* A variant of configured that does not return after the error event of a
\* configuration without enabled accounts
configured_WithoutReturn(request, warnings, accounts, scraped) ==
    after(warningEvents(warnings)
          \o (IF Len(enabledAccounts(accounts)) = 0 THEN <<plainEvent("error")>> ELSE << >>)
          \o progressEvents(scraped.messages),
          processed(scraped.results,
                    filterAndPartition(allRawTransactions(scraped.results)),
                    collectPairs(filterAndPartition(
                                     allRawTransactions(scraped.results)).kept),
                    request.enableDetailedLogging, request.detailedLoggingLimit))

\* the handler once the configuration is loaded: it stops with an error
\* event when no account is enabled, and otherwise scrapes and processes the
\* results
configured(request, warnings, accounts, scraped) ==
    IF Len(enabledAccounts(accounts)) = 0
    THEN [events |-> Append(warningEvents(warnings), plainEvent("error")),
          payload |-> NoPayload]
    ELSE after(warningEvents(warnings) \o progressEvents(scraped.messages),
               processed(scraped.results,
                         filterAndPartition(allRawTransactions(scraped.results)),
                         collectPairs(filterAndPartition(
                                          allRawTransactions(scraped.results)).kept),
                         request.enableDetailedLogging, request.detailedLoggingLimit))

\* GET /scrape/stream: loadConfig validates daysBack and an exception of it
\* is caught and sent as the error event; [events, payload]
scrapeStream(request, accounts, scrapers) ==
    IF validateDaysBack(queryDaysBack(request.daysBack)).threw
    THEN [events |-> <<plainEvent("error")>>, payload |-> NoPayload]
    ELSE configured(request,
                    configWarnings(validateDaysBack(queryDaysBack(request.daysBack)).value,
                                   accounts),
                    accounts, scrapeAllAccounts(accounts, scrapers))

-----------------------------------------------------------------------------
(* The requests of the server.                                             *)

MaxRows == 3

SourceRow(source) ==
    [date |-> PlainDate(2024, 3, 15), payee |-> <<Word(1)>>,
     memo |-> << <<"ref", "123">>, <<"source", source>> >>,
     outflow |-> <<"1", "5", "0", ".", "0", "0">>, inflow |-> << >>]

\* rows of the accounts Max, max and Leumi, a row with an empty memo, one
\* whose memo has no source, one whose source is empty, one whose memo is not
\* JSON and one whose memo is the text null
ExportRows ==
    { SourceRow("Max"), SourceRow("max"), SourceRow("Leumi"), ExpenseRow,
      [ExpenseRow EXCEPT !.memo = << <<"ref", "123">> >>],
      [ExpenseRow EXCEPT !.memo = << <<"source", "">> >>],
      [ExpenseRow EXCEPT !.memo = NotJsonText],
      [ExpenseRow EXCEPT !.memo = NullText] }

ExportRowLists == UNION { [1..n -> ExportRows] : n \in 0..MaxRows }

ExportBody(rows, outputDir, split, scrapeResults, skipped, auditLog) ==
    [rows |-> rows, outputDir |-> outputDir, split |-> split,
     scrapeResults |-> scrapeResults, skipped |-> skipped, auditLog |-> auditLog]

OutputDirs == { "./output", "" }

\* the bodies a client makes of the payload of the done event: the page
\* sends the audit log of the payload, an older client does not
PayloadBodies(payload) ==
    { ExportBody(Some(payload.rows), "./output", split, Some(payload.scrapeResults),
                 Some(payload.skipped), auditLog)
        : split \in BOOLEAN, auditLog \in { Some(payload.auditLog), None } }

\* bodies with rows of any memo and no audit data, and a body without rows
DirectBodies ==
    { ExportBody(Some(rows), outputDir, split, None, None, None)
        : rows \in ExportRowLists, outputDir \in OutputDirs, split \in BOOLEAN }
    \cup { ExportBody(None, "./output", FALSE, None, None, None) }

\* a transaction with an amount and no date: kept, and without a row
Undated == [BaseTxn EXCEPT !.description = <<Word(3)>>, !.chargedAmount = Some(-2500),
                           !.processedDate = None, !.date = None]

\* the scrape of a bank that gives one account with the transactions
Gives(txns) ==
    Scrape("result", TRUE,
           Some(<< [accountNumber |-> "1234",
                    txns |-> [i \in 1..Len(txns) |-> Scraped(txns[i])]] >>),
           <<"START_SCRAPING">>, "", "", NothingThrown)

LoginFails ==
    Scrape("result", FALSE, None, <<"LOGIN_FAILED">>, "INVALID_PASSWORD", "Login failed",
           NothingThrown)

Banks(max, leumi) == [n \in AccountNames |-> IF n = "Max" THEN max ELSE leumi]

StreamRun(accounts, scrapers) == [accounts |-> accounts, scrapers |-> scrapers]

\* the configurations and the scrapes of the runs: the results of the
\* recorder tests, two accounts whose transactions all give a row, an account
\* with an undated transaction, a disabled account beside an enabled one,
\* and configurations without an enabled account
StreamRuns ==
    { StreamRun(<<AccountConfig("Max", TRUE)>>,
                Banks(Gives(<<Expense, Income, Pending>>), LoginFails)),
      StreamRun(<<AccountConfig("Leumi", TRUE), AccountConfig("Max", TRUE)>>,
                Banks(Gives(<<Cancelled, Expense>>), LoginFails)),
      StreamRun(<<AccountConfig("Max", TRUE), AccountConfig("Leumi", TRUE)>>,
                Banks(Gives(<<Expense, Income>>), Gives(<<Income>>))),
      StreamRun(<<AccountConfig("Max", TRUE)>>,
                Banks(Gives(<<Undated, Expense>>), LoginFails)),
      StreamRun(<<AccountConfig("Leumi", FALSE), AccountConfig("Max", TRUE)>>,
                Banks(Gives(<<Expense>>), LoginFails)),
      StreamRun(<<AccountConfig("Leumi", TRUE)>>,
                Banks(Gives(<<Expense>>), LoginFails)),
      StreamRun(<<AccountConfig("Max", FALSE), AccountConfig("Leumi", FALSE)>>,
                Banks(Gives(<<Expense>>), LoginFails)),
      StreamRun(<< >>, Banks(LoginFails, LoginFails)) }

StreamRequests ==
    [daysBack : { None, Some(<<"3", "0">>), Some(<<"-", "5">>), Some(<<"4", "0", "0">>) },
     enableDetailedLogging : BOOLEAN,
     detailedLoggingLimit : RawLimits]

ScrapeStream ==
    /\ call.op = "none"
    /\ \E request \in StreamRequests, run \in StreamRuns :
         call' = [op |-> "scrapeStream", request |-> request,
                  accounts |-> run.accounts, scrapers |-> run.scrapers,
                  response |-> scrapeStream(request, run.accounts, run.scrapers)]
    /\ UNCHANGED <<tz, log, formatted, ops, other, es>>

\* POST /export with a body of its own
Export ==
    /\ call.op = "none"
    /\ \E body \in DirectBodies :
         call' = [op |-> "export", body |-> body, response |-> export(body), payload |-> None]
    /\ UNCHANGED <<tz, log, formatted, ops, other, es>>

\* POST /export by the client that holds the payload of a done event
ExportPayload ==
    /\ call.op = "scrapeStream"
    /\ IsSome(call.response.payload)
    /\ \E body \in PayloadBodies(Get(call.response.payload)) :
         call' = [op |-> "export", body |-> body, response |-> export(body),
                  payload |-> call.response.payload]
    /\ UNCHANGED <<tz, log, formatted, ops, other, es>>

-----------------------------------------------------------------------------
(* Two recorders.  Each createAuditLogger() call makes a log of its own in  *)
(* its closure: log is the one of the first call, other the one of the     *)
(* second, and a step is one operation on one of the two.                  *)

\* the logs one operation of a recorder can leave from log_, with the name
\* of the operation
recorderSteps(log_) ==
    { [op |-> "recordScrapeResults",
       after |-> [log_ EXCEPT !.accounts = recordScrapeResults(log_.accounts, results)]]
        : results \in ResultLists }
    \cup { [op |-> "recordRawScrapeResults",
            after |-> [log_ EXCEPT !.detailedLoggingLimit = Some(limit),
                                   !.rawScraperResults = Some(rawResults(results, limit))]]
             : results \in ResultLists, limit \in RawLimits }
    \cup { [op |-> "recordSkipped",
            after |-> [log_ EXCEPT !.skipped = Append(log_.skipped, skippedEntry(c[1], c[2]))]]
             : c \in SkippedCalls }
    \cup { [op |-> "recordTransformations",
            after |-> [log_ EXCEPT !.transformationDetails =
                                      Some(transformationSample(pairs, limit))]]
             : pairs \in PairLists, limit \in RawLimits }
    \cup { [op |-> "recordOutput",
            after |-> [log_ EXCEPT !.outputFile = c[2],
                                   !.outputTransactionCount = Len(c[1]),
                                   !.totalOutflow = log_.totalOutflow + rowsOutflow(c[1]),
                                   !.totalInflow = log_.totalInflow + rowsInflow(c[1]),
                                   !.checksum = Some(checksumOf(csvContent))]]
             : c \in OutputCalls, csvContent \in CsvContents }
    \cup { [op |-> "format", after |-> log_] }

\* A variant of OnFirstRecorder for recorders that share one skipped list
OnFirstRecorder_SharedSkipped ==
    /\ ops < MaxOps
    /\ \E step \in recorderSteps(log) :
         /\ log' = step.after
         /\ other' = [other EXCEPT !.skipped = step.after.skipped]
         /\ call' = [op |-> step.op, recorder |-> "first", before |-> log, beside |-> other]
    /\ ops' = ops + 1
    /\ UNCHANGED <<tz, formatted, es>>

\* an operation on the first recorder
OnFirstRecorder ==
    /\ ops < MaxOps
    /\ \E step \in recorderSteps(log) :
         /\ log' = step.after
         /\ call' = [op |-> step.op, recorder |-> "first", before |-> log, beside |-> other]
    /\ ops' = ops + 1
    /\ UNCHANGED <<tz, formatted, other, es>>

\* an operation on the second recorder
OnSecondRecorder ==
    /\ ops < MaxOps
    /\ \E step \in recorderSteps(other) :
         /\ other' = step.after
         /\ call' = [op |-> step.op, recorder |-> "second", before |-> other, beside |-> log]
    /\ ops' = ops + 1
    /\ UNCHANGED <<tz, formatted, log, es>>

-----------------------------------------------------------------------------
(* The client's event stream (createScrapeStream).  es holds the readyState *)
(* of the EventSource, the messages that have arrived and are not yet       *)
(* dispatched, and the events onEvent was called with, in order.  A message *)
(* is the type of the event its data parses to, or "not json" for data that *)
(* JSON.parse refuses.  The browser dispatches a message or an error only   *)
(* while the readyState is not CLOSED.                                      *)

NoStream == [readyState |-> "none", arrived |-> << >>, delivered |-> << >>, written |-> 0]

MessageTypes == { "warning", "progress", "account-done", "done", "error", "not json" }

\* data.type === "done" || data.type === "error"
terminal(type) == type \in { "done", "error" }

\* A variant of onmessage that leaves the EventSource open after a terminal
\* event
onmessage_NeverCloses(source, data) ==
    IF data = "not json" THEN source
    ELSE [source EXCEPT !.delivered = Append(@, data)]

\* es.onmessage: parse errors are ignored, the event is given to onEvent, and
\* a terminal event closes the EventSource
onmessage(source, data) ==
    IF data = "not json" THEN source
    ELSE [source EXCEPT !.delivered = Append(@, data),
                        !.readyState = IF terminal(data) THEN "closed" ELSE @]

\* es.onerror: close, then onEvent({ type: "error", ... })
onerror(source) ==
    [source EXCEPT !.readyState = "closed", !.delivered = Append(@, "error")]

\* createScrapeStream(...): new EventSource(url) with the two handlers
CreateScrapeStream ==
    /\ es.readyState = "none"
    /\ es' = [es EXCEPT !.readyState = "open"]
    /\ UNCHANGED <<tz, call, log, formatted, ops, other>>

\* a message of the server arrives
MessageArrives ==
    /\ es.readyState # "none"
    /\ es.written < MaxMessages
    /\ \E data \in MessageTypes :
         es' = [es EXCEPT !.arrived = Append(@, data), !.written = @ + 1]
    /\ UNCHANGED <<tz, call, log, formatted, ops, other>>

\* the browser dispatches the oldest message that has arrived: to onmessage
\* while the EventSource is not closed, to nobody once it is
DispatchMessage ==
    /\ Len(es.arrived) > 0
    /\ es' = IF es.readyState = "closed"
             THEN [es EXCEPT !.arrived = Tail(@)]
             ELSE onmessage([es EXCEPT !.arrived = Tail(@)], Head(es.arrived))
    /\ UNCHANGED <<tz, call, log, formatted, ops, other>>

\* the connection fails or the server ends the response: the browser fires
\* the error event of an EventSource that is not closed
ConnectionError ==
    /\ es.readyState = "open"
    /\ es' = onerror(es)
    /\ UNCHANGED <<tz, call, log, formatted, ops, other>>

\* The runtime's zone is Israel's, two or three hours east of UTC
Init ==
    /\ tz \in { 120, 180 }
    /\ call = [op |-> "none"]
    /\ log = NewLog
    /\ formatted = None
    /\ ops = 0
    /\ other = NewLog
    /\ es = NoStream

NextTransformer ==
    \/ ParseInstallments
    \/ AdjustInstallmentDate
    \/ TransformTransaction
    \/ TransformTransactions
    \/ FilterAndPartition
    \/ CalculateSummary
    \/ Return

SpecTransformer == Init /\ [][NextTransformer]_vars

NextAudit ==
    \/ RecordScrapeResults
    \/ RecordRawScrapeResults
    \/ RecordSkipped
    \/ RecordTransformations
    \/ RecordOutput
    \/ Format

SpecAudit == Init /\ [][NextAudit]_vars

NextServer ==
    \/ ValidateDaysBack
    \/ ScrapeStream
    \/ Export
    \/ ExportPayload
    \/ Return

SpecServer == Init /\ [][NextServer]_vars

NextRecorders ==
    \/ OnFirstRecorder
    \/ OnSecondRecorder

SpecRecorders == Init /\ [][NextRecorders]_vars

NextScraper ==
    \/ ScrapeAccount
    \/ ScrapeAllAccounts
    \/ Return

SpecScraper == Init /\ [][NextScraper]_vars

NextClient ==
    \/ CreateScrapeStream
    \/ MessageArrives
    \/ DispatchMessage
    \/ ConnectionError

SpecClient == Init /\ [][NextClient]_vars

-----------------------------------------------------------------------------
(* The properties.  The calendar used to state them counts days one by one *)
(* and shares nothing with the day numbers the Date operators compute.     *)

IsLeapYear(y) == (y % 4 = 0 /\ y % 100 # 0) \/ y % 400 = 0

DaysInMonth(y, m) ==
    IF m = 2 THEN (IF IsLeapYear(y) THEN 29 ELSE 28)
    ELSE IF m \in {4, 6, 9, 11} THEN 30 ELSE 31

\* the calendar day after c
NextDay(c) ==
    IF c.d < DaysInMonth(c.y, c.m) THEN [y |-> c.y, m |-> c.m, d |-> c.d + 1]
    ELSE IF c.m < 12 THEN [y |-> c.y, m |-> c.m + 1, d |-> 1]
    ELSE [y |-> c.y + 1, m |-> 1, d |-> 1]

RECURSIVE DaysLater(_, _)
DaysLater(c, n) == IF n <= 0 THEN c ELSE NextDay(DaysLater(c, n - 1))

\* the calendar day written by a string of the form YYYY-MM-DD
CivilOfString(s) ==
    [y |-> StrToNat(SubSeq(s, 1, 4)), m |-> StrToNat(SubSeq(s, 6, 7)),
     d |-> StrToNat(SubSeq(s, 9, 10))]

\* s is a calendar date in the form YYYY-MM-DD
IsCanonicalDate(s) ==
    /\ Len(s) = 10
    /\ \A i \in {1, 2, 3, 4, 6, 7, 9, 10} : IsDigit(s[i])
    /\ s[5] = "-" /\ s[8] = "-"
    /\ CivilOfString(s).m \in 1..12
    /\ CivilOfString(s).d \in 1..DaysInMonth(CivilOfString(s).y, CivilOfString(s).m)

\* the lines of the report that belong to a dump of the raw scraper results
RawDumpLines ==
    { "Raw Scraper Results:", "  (Showing first N transaction(s) per account)",
      "  (Showing all transactions)", "    [i] raw transaction" }

\* C1: whatever was recorded, raw scraper results included, the report that
\* format() produces has no "Raw Scraper Results:" section and no dump of the
\* raw transactions of the accounts.
C1_NoRawScraperSection ==
    IsSome(formatted) =>
        \A i \in 1..Len(Get(formatted)) : Get(formatted)[i][1] \notin RawDumpLines

\* a report made after raw scraper results with a transaction were recorded
C1_RawResultsRecorded ==
    /\ IsSome(formatted)
    /\ IsSome(log.rawScraperResults)
    /\ \E i \in 1..Len(Get(log.rawScraperResults)) :
         Len(Get(log.rawScraperResults)[i].transactions) > 0
    /\ \E i \in 1..Len(Get(formatted)) : Get(formatted)[i][1] = "Raw Scraper Results:"

\* the row a call of transformTransaction returned, if it returned one
RowReturned ==
    /\ call.op = "transformTransaction"
    /\ ~call.result.threw
    /\ IsSome(call.result.row)

\* C2: in every row transformTransaction returns exactly one of outflow and
\* inflow is non-empty; a negative charged amount fills outflow, a positive
\* one inflow, and the filled field read back as a decimal is the absolute
\* value of the charged amount.
C2_ExactlyOneSideFilled ==
    RowReturned =>
        LET row == Get(call.result.row)
            amount == Get(call.txn.chargedAmount)
        IN /\ (row.outflow = << >>) # (row.inflow = << >>)
           /\ amount < 0 => /\ row.outflow # << >>
                            /\ parseFloat(row.outflow) = Some(0 - amount)
           /\ amount > 0 => /\ row.inflow # << >>
                            /\ parseFloat(row.inflow) = Some(amount)

\* a row for an expense of 150.50
C2_ExpenseRow ==
    /\ RowReturned
    /\ call.txn.chargedAmount = Some(-15050)
    /\ Get(call.result.row).outflow = <<"1", "5", "0", ".", "5", "0">>
    /\ Get(call.result.row).inflow = << >>

\* the reason the claim C3 gives for a status and a charged amount: "Kept"
\* for a transaction that is not skipped
ReasonFor(status, chargedAmount) ==
    IF status = "pending" THEN "Pending"
    ELSE IF IsNone(chargedAmount) \/ chargedAmount = Some(0) THEN "Zero amount"
    ELSE "Kept"

\* C3: the status is checked before the amount.  A pending transaction is
\* skipped with reason "Pending" whatever its amount, another transaction is
\* skipped with reason "Zero amount" exactly when its amount is absent or
\* zero, every other transaction is kept, and the reason depends on the
\* status and the amount only.
C3_StatusBeforeAmount ==
    call.op = "filterAndPartition" =>
        LET kept == call.result.kept
            skipped == call.result.skipped
        IN /\ \A j \in 1..Len(skipped) :
                /\ skipped[j].reason \in {"Pending", "Zero amount"}
                /\ skipped[j].reason
                     = ReasonFor(skipped[j].txn.status, skipped[j].txn.chargedAmount)
           /\ \A j \in 1..Len(kept) :
                ReasonFor(kept[j].status, kept[j].chargedAmount) = "Kept"
           /\ \A i \in 1..Len(call.transactions) :
                LET txn == call.transactions[i]
                IN IF ReasonFor(txn.status, txn.chargedAmount) = "Kept"
                   THEN \E j \in 1..Len(kept) : kept[j] = txn
                   ELSE \E j \in 1..Len(skipped) : skipped[j].txn = txn
           /\ \A i, j \in 1..Len(skipped) :
                (/\ skipped[i].txn.status = skipped[j].txn.status
                 /\ skipped[i].txn.chargedAmount = skipped[j].txn.chargedAmount)
                    => skipped[i].reason = skipped[j].reason

\* a pending transaction with a zero amount, one with an amount, and one that
\* is not pending and has no amount, all skipped
C3_PendingZeroSkipped ==
    /\ call.op = "filterAndPartition"
    /\ Len(call.result.skipped) = 3
    /\ \E j \in 1..3 :
         /\ call.result.skipped[j].txn.status = "pending"
         /\ call.result.skipped[j].txn.chargedAmount = Some(0)
         /\ call.result.skipped[j].reason = "Pending"
    /\ \E j \in 1..3 :
         /\ call.result.skipped[j].txn.status = "pending"
         /\ call.result.skipped[j].txn.chargedAmount = Some(-15000)
    /\ \E j \in 1..3 :
         /\ call.result.skipped[j].txn.status = "completed"
         /\ IsNone(call.result.skipped[j].txn.chargedAmount)
         /\ call.result.skipped[j].reason = "Zero amount"

\* the classifier's verdicts, as the tests of SelectSeq
IsSkipped(txn) == shouldSkipTransaction(txn)
IsKept(txn) == ~shouldSkipTransaction(txn)

\* C4: filterAndPartition is an order-preserving partition.  kept holds the
\* transactions the classifier does not skip and skipped those it skips, each
\* in the order of the input, and the two lengths add up to the length of the
\* input.
C4_OrderPreservingPartition ==
    call.op = "filterAndPartition" =>
        LET kept == call.result.kept
            skipped == call.result.skipped
        IN /\ kept = SelectSeq(call.transactions, IsKept)
           /\ [j \in 1..Len(skipped) |-> skipped[j].txn]
                = SelectSeq(call.transactions, IsSkipped)
           /\ Len(kept) + Len(skipped) = Len(call.transactions)

\* two different kept transactions around a skipped one
C4_KeptAroundSkipped ==
    /\ call.op = "filterAndPartition"
    /\ Len(call.transactions) = 3
    /\ call.transactions[1] # call.transactions[3]
    /\ call.result.kept = <<call.transactions[1], call.transactions[3]>>
    /\ Len(call.result.skipped) = 1
    /\ call.result.skipped[1].txn = call.transactions[2]

\* the governing date as the claims C5 and C6 state it: processedDate when
\* there is one, the transaction date otherwise
GoverningOf(txn) ==
    IF IsSome(txn.processedDate) /\ Get(txn.processedDate) # << >>
    THEN txn.processedDate
    ELSE txn.date

\* the governing date is absent or does not parse
NoGoverningDay(txn) ==
    \/ IsNone(GoverningOf(txn))
    \/ Get(GoverningOf(txn)) = << >>
    \/ IsNone(parseDate(Get(GoverningOf(txn))))

\* C5: transformTransaction returns none whenever the classifier skips the
\* transaction or the governing date is absent or unparseable, whatever
\* installment info is resolved; it never throws; every row it returns has a
\* date in the form YYYY-MM-DD.
C5_NoneWithoutGoverningDay ==
    call.op = "transformTransaction" =>
        /\ ~call.result.threw
        /\ (shouldSkipTransaction(call.txn) \/ NoGoverningDay(call.txn))
              => IsNone(call.result.row)
        /\ IsSome(call.result.row) => IsCanonicalDate(Get(call.result.row).date)

\* a row for a later installment of a transaction whose date does not parse
C5_RowWithUnparsedDate ==
    /\ RowReturned
    /\ NoGoverningDay(call.txn)
    /\ IsSome(parseInstallments(call.txn.description))
    /\ Get(call.result.row).date = NotADate

\* transformTransaction never throws
C5_NeverThrows ==
    call.op = "transformTransaction" => ~call.result.threw

\* the installment number as the claim C6 states it: the one of the
\* description, else the one attached to the raw record, else 1
InstallmentNumberOf(txn) ==
    IF IsSome(parseInstallments(txn.description))
    THEN Get(parseInstallments(txn.description)).number
    ELSE IF IsSome(txn.installments) /\ Get(txn.installments).total # 0
    THEN Get(txn.installments).number
    ELSE 1

\* C6: for a kept transaction whose governing date (processedDate when
\* present, the transaction date otherwise) parses to the calendar day d, a
\* row is returned; its date is d when the installment number (from the
\* description first, from the raw record otherwise) is absent or 1, and d
\* plus k - 1 days when the number is k > 1.
C6_RowDateFromGoverningDay ==
    (/\ call.op = "transformTransaction"
     /\ ~shouldSkipTransaction(call.txn)
     /\ ~NoGoverningDay(call.txn)) =>
        /\ RowReturned
        /\ Get(call.result.row).date
             = FormatCivil(DaysLater(LocalCivil(Get(parseDate(Get(GoverningOf(call.txn))))),
                                     InstallmentNumberOf(call.txn) - 1))

\* the third installment charged on 2024-03-30, bought on another day, lands
\* on 2024-04-01
C6_ThirdInstallmentRollsOver ==
    /\ RowReturned
    /\ call.txn.processedDate = Some(PlainDate(2024, 3, 30))
    /\ call.txn.date = Some(AtPlus2(2024, 3, 15))
    /\ parseInstallments(call.txn.description) = Some([number |-> 3, total |-> 12])
    /\ Get(call.result.row).date = PlainDate(2024, 4, 1)

\* the installments of the raw record used where the description has none
C6_RawInstallmentsUsed ==
    /\ RowReturned
    /\ IsNone(parseInstallments(call.txn.description))
    /\ call.txn.installments = Some([number |-> 2, total |-> 12])
    /\ call.txn.processedDate = Some(PlainDate(2024, 2, 28))
    /\ Get(call.result.row).date = PlainDate(2024, 2, 29)

\* C7: spreading is date-additive.  For a date that parses,
\* adjustInstallmentDate(d, 1) is d in the form YYYY-MM-DD and for k > 1
\* adjustInstallmentDate(d, k) is the calendar day after
\* adjustInstallmentDate(d, k - 1), over the ends of months and years;
\* 2024-03-30 with k = 5 gives 2024-04-03.
C7_SpreadingIsDateAdditive ==
    (/\ call.op = "adjustInstallmentDate"
     /\ IsSome(parseDate(call.isoDate))
     /\ call.installmentNumber >= 1) =>
        /\ ~call.result.threw
        /\ IsCanonicalDate(call.result.str)
        /\ call.installmentNumber = 1 =>
             /\ call.result.str = FormatCivil(LocalCivil(Get(parseDate(call.isoDate))))
             /\ Len(call.isoDate) = 10 => call.result.str = call.isoDate
        /\ call.installmentNumber > 1 =>
             call.result.str
               = FormatCivil(NextDay(CivilOfString(
                   adjustInstallmentDate(call.isoDate, call.installmentNumber - 1).str)))
        /\ (call.isoDate = PlainDate(2024, 3, 30) /\ call.installmentNumber = 5)
             => call.result.str = PlainDate(2024, 4, 3)

\* the fifth installment of 2024-03-30
C7_FifthInstallmentInApril ==
    /\ call.op = "adjustInstallmentDate"
    /\ call.isoDate = PlainDate(2024, 3, 30)
    /\ call.installmentNumber = 5
    /\ call.result.str = PlainDate(2024, 4, 3)

\* the second installment of the last day of a year
C7_SecondInstallmentInNewYear ==
    /\ call.op = "adjustInstallmentDate"
    /\ call.isoDate = AtPlus2(2023, 12, 31)
    /\ call.installmentNumber = 2
    /\ call.result.str = PlainDate(2024, 1, 1)

\* the values of the leftmost match of the p-th pattern are valid
ValidMatchOf(p, text) ==
    LET match == Match(INSTALLMENT_PATTERNS[p], text)
    IN /\ IsSome(match)
       /\ Get(match)[1] > 0 /\ Get(match)[2] > 0 /\ Get(match)[1] <= Get(match)[2]

\* C8: parseInstallments tries its patterns in their order and returns the
\* first match whose values are valid; a result has number > 0, total > 0 and
\* number <= total; a match with a zero or out-of-range value counts as no
\* match, so that later patterns are tried and none is returned when no
\* pattern has a valid match, as for installment 15 of 12 and 0 of 12.
C8_FirstValidMatch ==
    call.op = "parseInstallments" =>
        LET valid == {p \in 1..Len(INSTALLMENT_PATTERNS) : ValidMatchOf(p, call.text)}
        IN /\ IsSome(call.result) =>
                /\ Get(call.result).number > 0
                /\ Get(call.result).total > 0
                /\ Get(call.result).number <= Get(call.result).total
           /\ valid = {} => IsNone(call.result)
           /\ valid # {} =>
                LET first == CHOOSE p \in valid : \A q \in valid : p <= q
                    match == Get(Match(INSTALLMENT_PATTERNS[first], call.text))
                IN call.result = Some([number |-> match[1], total |-> match[2]])
           /\ call.text \in {Phrase1(15, 12), Phrase1(0, 12)} => IsNone(call.result)

\* installment 15 of 12 in the words of the first pattern, then 2 of 12 in
\* the words of the second one: the second one is returned
C8_FallsThroughToLaterPattern ==
    /\ call.op = "parseInstallments"
    /\ call.text = Phrase1(15, 12) \o <<Sp>> \o Phrase2(2, 12)
    /\ IsSome(Match(INSTALLMENT_PATTERNS[1], call.text))
    /\ call.result = Some([number |-> 2, total |-> 12])

\* installment 15 of 12 alone yields none
C8_OutOfRangeIsNone ==
    /\ call.op = "parseInstallments"
    /\ call.text = Phrase1(15, 12)
    /\ IsNone(call.result)

\* how many elements of the sequence rows are the row r
TimesIn(rows, r) == Cardinality({i \in 1..Len(rows) : rows[i] = r})

\* C9: transformTransactions returns the rows transformTransaction produces
\* for the transactions of the input, each as often as it is produced and no
\* other row, in an order in which the date strings never increase.
C9_RowsSortedNewestFirst ==
    call.op = "transformTransactions" =>
        LET rows == call.result.rows
            produced == [i \in 1..Len(call.transactions) |->
                            transformTransaction(call.transactions[i]).row]
            some == [i \in 1..Len(rows) |-> Some(rows[i])]
        IN /\ ~call.result.threw
           /\ \A i \in 1..Len(rows) :
                TimesIn(rows, rows[i]) = TimesIn(produced, some[i])
           /\ \A i \in 1..Len(produced) :
                IsSome(produced[i]) => \E j \in 1..Len(rows) : some[j] = produced[i]
           /\ \A i \in 1..(Len(rows) - 1) :
                localeCompare(rows[i].date, rows[i + 1].date) >= 0

\* an older row, a transaction without a row and a newer row: the newer row
\* comes first in the result
C9_NewerRowMovedToFront ==
    /\ call.op = "transformTransactions"
    /\ Len(call.transactions) = 3
    /\ IsNone(transformTransaction(call.transactions[2]).row)
    /\ Len(call.result.rows) = 2
    /\ transformTransaction(call.transactions[1]).row = Some(call.result.rows[2])
    /\ transformTransaction(call.transactions[3]).row = Some(call.result.rows[1])
    /\ call.result.rows[1].date = PlainDate(2024, 3, 20)
    /\ call.result.rows[2].date = PlainDate(2024, 3, 10)

\* the key the claim C10 gives a transaction
SourceOf(txn) == IF IsNone(txn.accountName) THEN "unknown" ELSE Get(txn.accountName)

\* the sum of f over the first n entries
RECURSIVE SumOfFirst(_, _)
SumOfFirst(f, n) == IF n = 0 THEN 0 ELSE SumOfFirst(f, n - 1) + f[n]

\* C10: in the summary of calculateSummary the outflows of the sources add up
\* to totalOutflow and their inflows to totalInflow; the count of a source is
\* the number of transactions of the input attributed to it and the counts
\* add up to the length of the input; a transaction without a source name is
\* attributed to the key "unknown".
C10_SummaryIsConsistent ==
    call.op = "calculateSummary" =>
        LET byAccount == call.result.byAccount
            keys == {byAccount[j].key : j \in 1..Len(byAccount)}
        IN /\ SumOfFirst([j \in 1..Len(byAccount) |-> byAccount[j].outflow], Len(byAccount))
                = call.result.totalOutflow
           /\ SumOfFirst([j \in 1..Len(byAccount) |-> byAccount[j].inflow], Len(byAccount))
                = call.result.totalInflow
           /\ Cardinality(keys) = Len(byAccount)
           /\ keys = {SourceOf(call.transactions[i]) : i \in 1..Len(call.transactions)}
           /\ \A j \in 1..Len(byAccount) :
                byAccount[j].count
                  = Cardinality({i \in 1..Len(call.transactions) :
                                    SourceOf(call.transactions[i]) = byAccount[j].key})
           /\ SumOfFirst([j \in 1..Len(byAccount) |-> byAccount[j].count], Len(byAccount))
                = Len(call.transactions)

\* two transactions without a source name and one of the source "Leumi"
C10_UnknownSourceCounted ==
    /\ call.op = "calculateSummary"
    /\ Len(call.transactions) = 3
    /\ Len(call.result.byAccount) = 2
    /\ \E j \in 1..2 :
         call.result.byAccount[j].key = "unknown" /\ call.result.byAccount[j].count = 2
    /\ \E j \in 1..2 :
         call.result.byAccount[j].key = "Leumi" /\ call.result.byAccount[j].inflow = 50000
    /\ call.result.totalInflow = 50000
    /\ call.result.totalOutflow = 15050

\* the result of a source is a success
IsSuccess(result) == result.success

\* the charged amount of a raw transaction, an absent one counting as zero
ChargedOrZero(txn) == IF IsNone(txn.chargedAmount) THEN 0 ELSE Get(txn.chargedAmount)

\* the sum of the absolute negative and of the positive charged amounts
NegativeTotal(transactions) ==
    SumOfFirst([i \in 1..Len(transactions) |->
                   IF ChargedOrZero(transactions[i]) < 0
                   THEN 0 - ChargedOrZero(transactions[i]) ELSE 0], Len(transactions))
PositiveTotal(transactions) ==
    SumOfFirst([i \in 1..Len(transactions) |->
                   IF ChargedOrZero(transactions[i]) > 0
                   THEN ChargedOrZero(transactions[i]) ELSE 0], Len(transactions))

\* C11: recordScrapeResults appends one AccountSummary per successful result,
\* in the order of the results, and none for a failed one; the summary holds
\* the name of the source, the number of its raw transactions and the sums of
\* their absolute negative and positive charged amounts, absent amounts
\* counting as zero and skipped transactions included.
C11_SummaryPerSuccessfulResult ==
    call.op = "recordScrapeResults" =>
        LET successes == SelectSeq(call.results, IsSuccess)
            old == Len(call.before.accounts)
        IN /\ Len(log.accounts) = old + Len(successes)
           /\ SubSeq(log.accounts, 1, old) = call.before.accounts
           /\ \A i \in 1..Len(successes) :
                /\ log.accounts[old + i].name = successes[i].accountName
                /\ log.accounts[old + i].transactionCount = Len(successes[i].transactions)
                /\ log.accounts[old + i].totalOutflow = NegativeTotal(successes[i].transactions)
                /\ log.accounts[old + i].totalInflow = PositiveTotal(successes[i].transactions)
           /\ [log EXCEPT !.accounts = call.before.accounts] = call.before

\* a failed result and a successful one with a skipped and a kept transaction,
\* recorded after an earlier summary
C11_FailedResultLeftOut ==
    /\ call.op = "recordScrapeResults"
    /\ Len(call.results) = 2
    /\ ~call.results[1].success /\ call.results[2].success
    /\ Len(call.before.accounts) = 1
    /\ Len(log.accounts) = 2
    /\ log.accounts[1].totalOutflow = 138456
    /\ log.accounts[2] = [name |-> "Max", transactionCount |-> 2,
                          totalOutflow |-> 15000, totalInflow |-> 0]

\* an outflow or inflow string read as a decimal, in minor units, the empty
\* string counting as zero
DecimalOf(s) == IF s = << >> THEN 0 ELSE Get(parseFloat(s))

OutflowSum(rows) == SumOfFirst([i \in 1..Len(rows) |-> DecimalOf(rows[i].outflow)], Len(rows))
InflowSum(rows) == SumOfFirst([i \in 1..Len(rows) |-> DecimalOf(rows[i].inflow)], Len(rows))

\* what recordOutput does to the fields other than the totals: the reference,
\* the number of rows, a 16-digit prefix of the digest of the content, and
\* nothing else
OutputFieldsSet ==
    /\ log.outputFile = call.outputPath
    /\ log.outputTransactionCount = Len(call.rows)
    /\ IsSome(log.checksum)
    /\ Get(log.checksum).of = call.csvContent
    /\ Get(log.checksum).hexDigits = 16
    /\ log.accounts = call.before.accounts
    /\ log.skipped = call.before.skipped
    /\ log.transformationDetails = call.before.transformationDetails
    /\ log.rawScraperResults = call.before.rawScraperResults
    /\ log.detailedLoggingLimit = call.before.detailedLoggingLimit
    /\ log.timestamp = call.before.timestamp

\* C12: recordOutput sets outputFile to the reference,
\* outputTransactionCount to the number of rows, totalOutflow and totalInflow
\* to the sums of the outflow and inflow strings of the rows, and checksum to
\* a 16-digit prefix of the digest of the content, and leaves accounts,
\* skipped and the sample unchanged.
C12_TotalsSetToSumsOfRows ==
    call.op = "recordOutput" =>
        /\ OutputFieldsSet
        /\ log.totalOutflow = OutflowSum(call.rows)
        /\ log.totalInflow = InflowSum(call.rows)

\* what the code does to the totals: recordOutput adds the sums of the outflow
\* and inflow strings of the rows to totalOutflow and totalInflow, which are
\* those sums in the first call on a recorder only
OutputTotalsGrowBySumsOfRows ==
    call.op = "recordOutput" =>
        /\ OutputFieldsSet
        /\ log.totalOutflow = call.before.totalOutflow + OutflowSum(call.rows)
        /\ log.totalInflow = call.before.totalInflow + InflowSum(call.rows)
        /\ IsNone(call.before.checksum) =>
             /\ log.totalOutflow = OutflowSum(call.rows)
             /\ log.totalInflow = InflowSum(call.rows)

\* a second recordOutput with the same two rows: the totals are twice the sums
C12_SecondOutputAddsUp ==
    /\ call.op = "recordOutput"
    /\ Len(call.rows) = 2
    /\ call.before.outputTransactionCount = 2
    /\ call.before.totalOutflow = 15000
    /\ log.outputTransactionCount = 2
    /\ log.totalOutflow = 30000
    /\ log.totalInflow = 1000000

\* the first min(limit, Len(pairs)) pairs for limit > 0, all pairs otherwise
SampleOf(pairs, limit) ==
    IF limit > 0
    THEN [i \in 1..(IF limit < Len(pairs) THEN limit ELSE Len(pairs)) |-> pairs[i]]
    ELSE pairs

\* C13: recordTransformations(pairs, limit) stores the first
\* min(limit, length(pairs)) pairs, as given and in order, when limit > 0 and
\* all pairs when limit <= 0; a later call replaces what an earlier call
\* stored.
C13_SampleIsLastWrite ==
    call.op = "recordTransformations" =>
        /\ IsSome(log.transformationDetails)
        /\ Get(log.transformationDetails) = SampleOf(call.pairs, call.limit)
        /\ Len(Get(log.transformationDetails)) <= Len(call.pairs)

\* a sample of two pairs replaced by the first pair of a second call
C13_SecondSampleReplacesFirst ==
    /\ call.op = "recordTransformations"
    /\ call.before.transformationDetails = Some(call.pairs)
    /\ Len(call.pairs) = 2
    /\ call.limit = 1
    /\ log.transformationDetails = Some(<<call.pairs[1]>>)

\* the recorder operations other than recordSkipped
OtherRecorderOps ==
    { "recordScrapeResults", "recordRawScrapeResults", "recordTransformations",
      "recordOutput", "format" }

\* C14: recordSkipped is append-only and incremental.  The skipped list is
\* empty at first, a recordSkipped call adds one item with the reason and
\* the description of the call behind the items already there and changes
\* nothing else in the log, and no other operation changes the list; so after
\* n recordSkipped calls the list has the n items in the order of the calls.
C14_SkippedIsAppendOnly ==
    /\ call.op = "none" => log.skipped = << >>
    /\ call.op \in OtherRecorderOps => log.skipped = call.before.skipped
    /\ call.op = "recordSkipped" =>
         LET old == Len(call.before.skipped)
         IN /\ Len(log.skipped) = old + 1
            /\ SubSeq(log.skipped, 1, old) = call.before.skipped
            /\ log.skipped[old + 1].reason = call.reason
            /\ log.skipped[old + 1].description = call.txn.description
            /\ [log EXCEPT !.skipped = call.before.skipped] = call.before
    /\ Len(log.skipped) <= ops

\* a zero-amount transaction skipped after a pending one
C14_SecondSkipAppended ==
    /\ call.op = "recordSkipped"
    /\ call.reason = "Zero amount"
    /\ Len(call.before.skipped) = 1
    /\ Len(log.skipped) = 2
    /\ log.skipped[1].reason = "Pending"
    /\ log.skipped[2].reason = "Zero amount"
    /\ log.skipped[2].amount = 0

\* C15: rendering is idempotent and read-only.  format() leaves every field
\* of the log as it was, returns the rendering of the log as recorded up to
\* the call, and returns the same text as the call before it when no recorder
\* operation came between them.
C15_FormatReadsOnly ==
    /\ call.op = "format" =>
         /\ log = call.before
         /\ formatted = Some(formatAuditLog(call.before))
         /\ IsSome(call.previous) => formatted = call.previous
    /\ IsSome(formatted) => call.op = "format"

\* format() called twice in a row after a skip and an output were recorded
C15_FormattedTwiceAfterOutput ==
    /\ call.op = "format"
    /\ IsSome(call.previous)
    /\ IsSome(log.outputFile)
    /\ Len(log.skipped) = 1
    /\ formatted = call.previous

\* format() called on the log of a new recorder
C15_FormattedWhileEmpty ==
    /\ call.op = "format"
    /\ log = NewLog
    /\ IsSome(formatted)


-----------------------------------------------------------------------------
\* the positions of the lines of a report that start with one of the texts
LinesWith(report, texts) == { i \in 1..Len(report) : report[i][1] \in texts }

SectionHeadings ==
    { "Accounts:", "Skipped (N):", "Output: file",
      "Output: (none - dry run or no transactions)", "=== DETAILED LOGGING ===",
      "Raw Scraper Results:", "Transformation Details:" }

\* the layout of the last rendered report, the output details being shown
\* exactly when detailsShown holds of the log
ReportLaidOut(detailsShown) ==
    IsSome(formatted) =>
        LET report == Get(formatted)
            accounts == LinesWith(report, {"Accounts:"})
            skipped == LinesWith(report, {"Skipped (N):"})
            details == LinesWith(report, {"Output: file"})
            notice == LinesWith(report, {"Output: (none - dry run or no transactions)"})
            sample == LinesWith(report, {"Transformation Details:"})
            sampled == /\ IsSome(log.transformationDetails)
                       /\ Len(Get(log.transformationDetails)) > 0
        IN  /\ report[1] = <<"=== Scrape Run: timestamp ===", log.timestamp>>
            /\ Cardinality(accounts) = 1
            /\ Cardinality(skipped) = 1
            /\ Cardinality(details \cup notice) = 1
            /\ \A a \in accounts, s \in skipped, o \in details \cup notice :
                 /\ 1 < a /\ a < s /\ s < o
                 /\ report[s][2] = Len(log.skipped)
                 /\ (report[a + 1] = <<"  (none)">>) <=> (Len(log.accounts) = 0)
                 /\ (report[s + 1] = <<"  (none)">>) <=> (Len(log.skipped) = 0)
                 /\ \A t \in sample :
                      /\ o < t
                      /\ LinesWith(report, SectionHeadings) \cap (t + 1)..Len(report) = {}
            /\ (details # {}) <=> detailsShown
            /\ (notice # {}) <=> ~detailsShown
            /\ \A o \in details :
                 /\ report[o][2] = Get(log.outputFile)
                 /\ report[o + 1] = <<"  N transactions", log.outputTransactionCount>>
                 /\ report[o + 2][1] = "  Total: outflow, inflow"
                 /\ report[o + 4] = <<"Checksum: ", log.checksum>>
            /\ Cardinality(sample) = IF sampled THEN 1 ELSE 0

\* C16: the report has the header, "Accounts:", "Skipped (N):" with N the
\* number of recorded skipped items, the output section and last
\* "Transformation Details:" in this order; accounts and skipped show
\* "(none)" when empty; the output section shows the file reference, the row
\* count, the totals and the checksum exactly when recordOutput was called and
\* the "no output" notice exactly when it was not; "Transformation Details:"
\* appears exactly when the sample is not empty.
C16_OutputShownWhenRecorded == ReportLaidOut(IsSome(log.checksum))

\* C16, amended: the same layout, the output section showing the file
\* reference, the row count, the totals and the checksum exactly when the log
\* holds a non-empty output reference, and the "no output" notice otherwise,
\* which includes a recordOutput that was given no reference.
C16_OutputShownWhenReferenced == ReportLaidOut(TruthyAtom(log.outputFile))

\* a report rendered after a sample and a recordOutput without a reference:
\* the notice is shown and "Transformation Details:" comes after it
C16_NoticeAfterOutputWithoutReference ==
    /\ IsSome(formatted)
    /\ IsSome(log.checksum)
    /\ IsNone(log.outputFile)
    /\ LinesWith(Get(formatted), {"Output: (none - dry run or no transactions)"}) # {}
    /\ LinesWith(Get(formatted), {"Transformation Details:"}) # {}

-----------------------------------------------------------------------------
\* the checksum a new recorder holds after one recordOutput of the content,
\* with no rows and whatever reference
ChecksumOnNewRecorder(csvContent) ==
    Some([digest |-> "sha256", of |-> csvContent, hexDigits |-> 16])

\* C17: the checksum is a function of the exported content only: after
\* recordOutput the recorder holds the checksum a new recorder holds for the
\* same content, whatever the rows, the reference, the timestamp and the
\* state of the recorder before the call.
C17_ChecksumOfContentOnly ==
    call.op = "recordOutput" => log.checksum = ChecksumOnNewRecorder(call.csvContent)

\* recordOutput with rows on a recorder that holds an account and the
\* checksum of an earlier export of another content
C17_OutputOverEarlierOutput ==
    /\ call.op = "recordOutput"
    /\ Len(call.rows) > 0
    /\ Len(call.before.accounts) > 0
    /\ IsSome(call.before.checksum)
    /\ Get(call.before.checksum).of # call.csvContent
    /\ log.checksum = ChecksumOnNewRecorder(call.csvContent)

-----------------------------------------------------------------------------
\* the number a string of digits only writes, in tenths
RECURSIVE WrittenNumber(_)
WrittenNumber(chars) ==
    IF Len(chars) = 0 THEN 0
    ELSE WrittenNumber(SubSeq(chars, 1, Len(chars) - 1)) * 10
         + 10 * (CHOOSE d \in 0..9 : NatToStr(d) = <<chars[Len(chars)]>>)

OnlyDigits(chars) ==
    /\ Len(chars) > 0
    /\ \A i \in 1..Len(chars) : chars[i] \in {"0", "1", "2", "3", "4", "5", "6", "7", "8", "9"}

RaisedInvalidDaysBack(result) ==
    /\ result.threw
    /\ result.message[1] = "Invalid daysBack value: "

\* C19: validateDaysBack returns the default 60 for undefined and null; for
\* any other input it returns a number that is at least 1, the given number
\* or the value a string of digits writes, or raises "Invalid daysBack";
\* zero, negative numbers, NaN and strings without a number raise; it never
\* returns a number below 1 or something that is not a number.
C19_DefaultOrAtLeastOneOrRaises ==
    call.op = "validateDaysBack" =>
        LET value == call.value
            result == call.result
        IN  /\ value.type \in {"undefined", "null"} =>
                 ~result.threw /\ result.value = NumberOf(600)
            /\ value.type \notin {"undefined", "null"} =>
                 \/ RaisedInvalidDaysBack(result)
                 \/ /\ ~result.threw
                    /\ result.value.type = "number"
                    /\ ~result.value.nan
                    /\ result.value.tenths >= 10
                    /\ value.type = "number" => result.value = value
                    /\ (value.type = "string" /\ OnlyDigits(value.chars)) =>
                         result.value = NumberOf(WrittenNumber(value.chars))
            /\ (value.type = "number" /\ (value.nan \/ value.tenths <= 0)) =>
                 RaisedInvalidDaysBack(result)
            /\ (value.type = "string" /\ value.chars \in { <<"a", "b", "c">>, <<"0">>, <<"-", "5">>, << >> }) =>
                 RaisedInvalidDaysBack(result)
            /\ ~result.threw =>
                 /\ result.value.type = "number"
                 /\ ~result.value.nan
                 /\ result.value.tenths >= 10

\* validateDaysBack("30") has returned 30
C19_NumericStringParsed ==
    /\ call.op = "validateDaysBack"
    /\ call.value = StringOf(<<"3", "0">>)
    /\ call.result = [threw |-> FALSE, value |-> NumberOf(300), message |-> << >>]

\* validateDaysBack(0) has raised
C19_ZeroRaises ==
    /\ call.op = "validateDaysBack"
    /\ call.value = NumberOf(0)
    /\ RaisedInvalidDaysBack(call.result)

-----------------------------------------------------------------------------
\* the bucket the claim C18 gives a row: the source written in its memo,
\* "unknown" when the memo is empty, is not the text of an object or has no
\* source (an empty source counting as none)
BucketKeyOf(row) ==
    LET memo == row.memo
        isObject == Len(memo) > 0 /\ \A i \in 1..Len(memo) : Len(memo[i]) = 2
        sources == IF isObject
                   THEN { memo[i][2] : i \in { j \in 1..Len(memo) : memo[j][1] = "source" } }
                   ELSE {}
    IN  IF sources = {} \/ sources = {""} THEN "unknown" ELSE CHOOSE s \in sources : TRUE

\* the rows of a bucket, in the order of the input
RowsOfBucket(rows, key) ==
    LET InBucket(row) == BucketKeyOf(row) = key
    IN  SelectSeq(rows, InBucket)

\* how many times a row is among the rows
TimesAmong(rows, row) == Cardinality({ i \in 1..Len(rows) : rows[i] = row })

RECURSIVE TimesInFiles(_, _)
TimesInFiles(files, row) ==
    IF Len(files) = 0 THEN 0
    ELSE TimesInFiles(SubSeq(files, 1, Len(files) - 1), row)
         + TimesAmong(files[Len(files)].content.csv, row)

\* the files on the disk after a split export are the buckets of the rows
FilesAreTheBuckets(rows, files) ==
    LET keys == { BucketKeyOf(rows[i]) : i \in 1..Len(rows) }
    IN  /\ Len(files) = Cardinality(keys)
        /\ \A key \in keys :
             \E f \in 1..Len(files) : files[f].content.csv = RowsOfBucket(rows, key)
        /\ \A i \in 1..Len(rows) : TimesInFiles(files, rows[i]) = TimesAmong(rows, rows[i])

\* C18: in an export with split every row is in exactly one bucket, the
\* bucket of the source written in its memo and "unknown" when the memo is
\* empty, unparseable or without a source; the rows of a bucket keep their
\* order, one file is written per bucket, and the rows of the written files
\* together are the rows of the request, none lost and none twice.
C18_SplitFilesHoldAllRows ==
    (call.op = "export" /\ call.response.status = 200 /\ call.body.split) =>
        FilesAreTheBuckets(Get(call.body.rows), call.response.files)

\* what the code does: the files are the buckets of the rows whenever the
\* paths of the buckets differ
SplitFilesHoldAllRowsOnDistinctPaths ==
    (call.op = "export" /\ call.response.status = 200 /\ call.body.split
     /\ Len(call.response.files) = Len(call.response.csvPaths)) =>
        FilesAreTheBuckets(Get(call.body.rows), call.response.files)

\* a split export of a row of the account Max and a row of the account max:
\* two buckets, two paths that are one, and one file with the second row
C18_TwoBucketsOneFile ==
    /\ call.op = "export"
    /\ call.body.split
    /\ call.body.rows = Some(<<SourceRow("Max"), SourceRow("max")>>)
    /\ Len(call.response.csvPaths) = 2
    /\ call.response.csvPaths[1] = call.response.csvPaths[2]
    /\ Len(call.response.files) = 1
    /\ call.response.files[1].content.csv = <<SourceRow("max")>>

-----------------------------------------------------------------------------
\* the N of the line "Skipped (N):" of a report
SkippedShown(report) ==
    { report[i][2] : i \in { j \in 1..Len(report) : report[j][1] = "Skipped (N):" } }

\* the skipped items of an audit log are those of the list, in its order
SkippedRecorded(auditLog, skipped) ==
    /\ Len(auditLog.skipped) = Len(skipped)
    /\ \A i \in 1..Len(skipped) :
         /\ auditLog.skipped[i].reason = skipped[i].reason
         /\ auditLog.skipped[i].description = skipped[i].txn.description

\* C20: in a run of GET /scrape/stream every transaction the classifier
\* skips is recorded in the audit log of the run: when the done event is sent
\* auditLog.skipped has one entry per element of the skipped list of
\* filterAndPartition, in its order and with its reason, and the report
\* persisted for the run shows "Skipped (N)" with N the number of skipped
\* transactions.
C20_SkipsRecordedAtDone ==
    /\ (call.op = "scrapeStream" /\ IsSome(call.response.payload)) =>
          SkippedRecorded(Get(call.response.payload).auditLog,
                          Get(call.response.payload).skipped)
    /\ (call.op = "export" /\ IsSome(call.payload) /\ IsSome(call.body.auditLog)
        /\ call.response.status = 200) =>
          SkippedShown(Get(call.response.report)) = { Len(Get(call.payload).skipped) }

\* what the code does for the older client, which sends the skipped list and
\* no audit log: the export records every skipped item itself and the report
\* shows their number
SkipsReportedWithoutAuditLog ==
    (call.op = "export" /\ IsSome(call.payload) /\ IsNone(call.body.auditLog)
     /\ call.response.status = 200) =>
        /\ SkippedRecorded(Get(call.response.auditLog), Get(call.payload).skipped)
        /\ SkippedShown(Get(call.response.report)) = { Len(Get(call.payload).skipped) }

\* the report persisted for a run that skipped a pending transaction shows
\* "Skipped (0)", the audit log of the done event being sent back
C20_SkippedRunReportsNone ==
    /\ call.op = "export"
    /\ IsSome(call.payload)
    /\ IsSome(call.body.auditLog)
    /\ Len(Get(call.payload).skipped) > 0
    /\ Get(call.payload).skipped[1].reason = "Pending"
    /\ Get(call.payload).auditLog.skipped = << >>
    /\ SkippedShown(Get(call.response.report)) = { 0 }

-----------------------------------------------------------------------------
\* the notes of the "Transformation Details:" section of a report
SampleNotes(report) ==
    { report[i] : i \in { j \in 1..Len(report) :
                            report[j][1] \in { "  (Showing first N transformation(s))",
                                               "  (Showing all transformations)" } } }

\* C21: the note of "Transformation Details:" tells whether the sample was
\* truncated: after recordTransformations(pairs, limit) with a non-empty
\* sample the report says it shows the first limit transformations when
\* limit > 0 and all transformations when limit <= 0, whatever other recorder
\* operations were called.
C21_NoteFollowsSampleLimit ==
    (call.op = "recordTransformations" /\ Len(Get(log.transformationDetails)) > 0) =>
        SampleNotes(formatAuditLog(log)) =
            IF call.limit > 0
            THEN { <<"  (Showing first N transformation(s))", call.limit>> }
            ELSE { <<"  (Showing all transformations)">> }

\* what the code does: the note follows the limit given to
\* recordRawScrapeResults, and says "all" while that was never called
SampleNoteFollowsRawLimit ==
    (IsSome(log.transformationDetails) /\ Len(Get(log.transformationDetails)) > 0) =>
        SampleNotes(formatAuditLog(log)) =
            IF IsSome(log.detailedLoggingLimit) /\ Get(log.detailedLoggingLimit) > 0
            THEN { <<"  (Showing first N transformation(s))", Get(log.detailedLoggingLimit)>> }
            ELSE { <<"  (Showing all transformations)">> }

\* recordTransformations with limit 1 on a new recorder: one pair of two is
\* kept and the report says it shows all transformations
C21_TruncatedSampleSaysAll ==
    /\ call.op = "recordTransformations"
    /\ call.limit = 1
    /\ Len(call.pairs) = 2
    /\ Len(Get(log.transformationDetails)) = 1
    /\ IsNone(log.detailedLoggingLimit)
    /\ SampleNotes(formatAuditLog(log)) = { <<"  (Showing all transformations)">> }

-----------------------------------------------------------------------------
\* the "N/M" markers of a memo, as pairs <<N, M>>
InstallmentMarkers(memo) ==
    { memo[i][2] : i \in { j \in 1..Len(memo) : memo[j][1] = "installment" } }

\* the raw record carries an installment count beyond its total and the
\* description names no installment
OutOfRangeRawInstallment(txn) ==
    /\ IsNone(parseInstallments(txn.description))
    /\ IsSome(txn.installments)
    /\ Get(txn.installments).number > Get(txn.installments).total
    /\ Get(txn.installments).total > 0

\* C22: every InstallmentInfo that transformTransaction and buildMemo use,
\* parsed from the description or taken from the raw record, has number > 0,
\* total > 0 and number <= total: the marker of the memo of a returned row is
\* in range, and a raw record with number > total is neither used to spread
\* the date nor written as the marker of the memo.
C22_UsedInstallmentsInRange ==
    RowReturned =>
        /\ \A marker \in InstallmentMarkers(Get(call.result.row).memo) :
             marker[1] > 0 /\ marker[2] > 0 /\ marker[1] <= marker[2]
        /\ OutOfRangeRawInstallment(call.txn) =>
             /\ InstallmentMarkers(Get(call.result.row).memo) = {}
             /\ Get(call.result.row).date
                  = formatDate(Get(parseDate(Get(GoverningOf(call.txn))))).str

\* a raw record with installment 15 of 12 charged on 2024-03-15: the row is
\* dated fourteen days later and its memo carries the marker 15/12
C22_FifteenOfTwelveUsed ==
    /\ RowReturned
    /\ OutOfRangeRawInstallment(call.txn)
    /\ call.txn.installments = Some([number |-> 15, total |-> 12])
    /\ call.txn.processedDate = Some(PlainDate(2024, 3, 15))
    /\ Get(call.result.row).date = PlainDate(2024, 3, 29)
    /\ InstallmentMarkers(Get(call.result.row).memo) = { <<15, 12>> }

\* what the code does: the info parsed from a description is always in range
ParsedInstallmentsInRange ==
    (call.op = "parseInstallments" /\ IsSome(call.result)) =>
        /\ Get(call.result).number > 0
        /\ Get(call.result).total > 0
        /\ Get(call.result).number <= Get(call.result).total

-----------------------------------------------------------------------------
\* an export that saved the audit log of the run whose payload it was sent
RunExported ==
    /\ call.op = "export"
    /\ IsSome(call.payload)
    /\ IsSome(call.body.auditLog)
    /\ call.response.status = 200

\* the sum of a field over the accounts of an audit log
RECURSIVE AccountsTotal(_, _)
AccountsTotal(accounts, field) ==
    IF Len(accounts) = 0 THEN 0
    ELSE AccountsTotal(SubSeq(accounts, 1, Len(accounts) - 1), field)
         + accounts[Len(accounts)][field]

\* the number of transactions of the successful results of the run
ScrapedCount(scrapeResults) ==
    LET counts == [i \in 1..Len(scrapeResults) |->
                     IF scrapeResults[i].success THEN scrapeResults[i].transactionCount
                     ELSE 0]
    IN  SumOfFirst(counts, Len(counts))

\* C23: in a run that records recordScrapeResults(results) and then the
\* output of the rows made of the transactions of the successful results,
\* the totals of the accounts bound the totals of the output: the sum of
\* accounts[*].totalOutflow is at least log.totalOutflow, likewise for the
\* inflow, with equality when no transaction was skipped or dropped, and the
\* sum of accounts[*].transactionCount is at least outputTransactionCount.
C23_AccountTotalsBoundOutput ==
    RunExported =>
        LET saved == Get(call.response.auditLog)
            payload == Get(call.payload)
        IN  /\ AccountsTotal(saved.accounts, "totalOutflow") >= saved.totalOutflow
            /\ AccountsTotal(saved.accounts, "totalInflow") >= saved.totalInflow
            /\ AccountsTotal(saved.accounts, "transactionCount")
                 >= saved.outputTransactionCount
            /\ saved.outputTransactionCount = Len(payload.rows)
            /\ Len(payload.rows) = ScrapedCount(payload.scrapeResults) =>
                 /\ AccountsTotal(saved.accounts, "totalOutflow") = saved.totalOutflow
                 /\ AccountsTotal(saved.accounts, "totalInflow") = saved.totalInflow

\* a run with a skipped pending transaction: the accounts total more outflow
\* than the output
C23_SkippedOutflowCountedInAccounts ==
    /\ RunExported
    /\ Len(Get(call.payload).skipped) = 1
    /\ Len(Get(call.payload).rows) = 2
    /\ AccountsTotal(Get(call.response.auditLog).accounts, "totalOutflow")
         = Get(call.response.auditLog).totalOutflow + 123456
    /\ AccountsTotal(Get(call.response.auditLog).accounts, "transactionCount") = 3

\* a run of two accounts in which every transaction gave a row: the totals
\* of the accounts are those of the output
C23_NothingSkippedTotalsEqual ==
    /\ RunExported
    /\ Len(Get(call.response.auditLog).accounts) = 2
    /\ Len(Get(call.payload).rows) = 3
    /\ ScrapedCount(Get(call.payload).scrapeResults) = 3
    /\ Get(call.response.auditLog).totalInflow = 100000
    /\ AccountsTotal(Get(call.response.auditLog).accounts, "totalInflow") = 100000

-----------------------------------------------------------------------------
\* an export of the payload of a run, with or without its audit log
PayloadExported ==
    /\ call.op = "export"
    /\ IsSome(call.payload)
    /\ call.response.status = 200

\* the sum of the counts of the sources of a summary
SourceCounts(summary) ==
    LET counts == [i \in 1..Len(summary.byAccount) |-> summary.byAccount[i].count]
    IN  SumOfFirst(counts, Len(counts))

\* the totals of the saved log are those of the summary and the number of
\* rows is the sum of the counts of the sources
OutputAgreesWithSummary ==
    LET saved == Get(call.response.auditLog)
        summary == Get(call.payload).summary
    IN  /\ saved.totalOutflow = summary.totalOutflow
        /\ saved.totalInflow = summary.totalInflow
        /\ saved.outputTransactionCount = SourceCounts(summary)

\* C24: the two paths that compute totals agree: for the kept set of a run
\* the totals recordOutput computes from the rows are the totals of
\* calculateSummary over kept, and the number of rows is the sum of the
\* counts of the sources.
C24_OutputAgreesWithSummary == PayloadExported => OutputAgreesWithSummary

\* C24, amended: the two agree when every kept transaction gave a row; a kept
\* transaction without a row (no date that parses) is in the summary and not
\* in the output, so that in general the totals and the count of the summary
\* are at least those of the output, and the counts of the sources add up to
\* the number of kept transactions.
C24_AgreesWhenEveryKeptGivesRow ==
    PayloadExported =>
        LET saved == Get(call.response.auditLog)
            payload == Get(call.payload)
        IN  /\ Len(payload.rows) = Len(payload.kept) => OutputAgreesWithSummary
            /\ payload.summary.totalOutflow >= saved.totalOutflow
            /\ payload.summary.totalInflow >= saved.totalInflow
            /\ SourceCounts(payload.summary) = Len(payload.kept)
            /\ saved.outputTransactionCount = Len(payload.rows)
            /\ Len(payload.rows) <= Len(payload.kept)

\* a run of two accounts, three kept transactions and three rows, exported:
\* outflow 150.00 and inflow 1000.00 in the summary and in the log
C24_ThreeRowsAgree ==
    /\ PayloadExported
    /\ Len(Get(call.payload).kept) = 3
    /\ Len(Get(call.payload).rows) = 3
    /\ Len(Get(call.payload).summary.byAccount) = 2
    /\ Get(call.payload).summary.totalOutflow = 15000
    /\ Get(call.response.auditLog).totalOutflow = 15000
    /\ Get(call.response.auditLog).totalInflow = 100000

\* a run that kept a transaction without a date: the summary counts its 25.00
\* and the output does not
C24_UndatedKeptInSummaryOnly ==
    /\ PayloadExported
    /\ Len(Get(call.payload).kept) = 2
    /\ Len(Get(call.payload).rows) = 1
    /\ Get(call.payload).summary.totalOutflow = 17500
    /\ Get(call.response.auditLog).totalOutflow = 15000

-----------------------------------------------------------------------------
\* the output fields of a log
OutputFields(log_) ==
    <<log_.outputFile, log_.outputTransactionCount, log_.totalOutflow, log_.totalInflow,
      log_.checksum>>

\* C25: after any sequence of recorder operations the output fields describe
\* one row set: while recordOutput was never called the count and the totals
\* are zero and outputFile and checksum are null; a recordOutput call leaves
\* the number and the sums of the outflow and inflow of its rows; every other
\* operation leaves the output fields as they were, so that they are always
\* those of the most recent recordOutput call.
C25_OutputFieldsOfLastOutput ==
    /\ IsNone(log.checksum) => OutputFields(log) = <<None, 0, 0, 0, None>>
    /\ call.op = "recordOutput" =>
         /\ IsSome(log.checksum)
         /\ log.outputTransactionCount = Len(call.rows)
         /\ log.totalOutflow = OutflowSum(call.rows)
         /\ log.totalInflow = InflowSum(call.rows)
    /\ call.op \notin { "none", "recordOutput" } =>
         OutputFields(log) = OutputFields(call.before)

\* what the code does: the fields are zero and null before the first
\* recordOutput, and the operations other than recordOutput leave them alone
OutputFieldsKeptByOtherOperations ==
    /\ IsNone(log.checksum) => OutputFields(log) = <<None, 0, 0, 0, None>>
    /\ call.op \notin { "none", "recordOutput" } =>
         OutputFields(log) = OutputFields(call.before)

\* recordOutput of two rows and then of no rows: no row is counted and the
\* totals are those of the two rows of the call before
C25_TotalsOfEarlierRows ==
    /\ call.op = "recordOutput"
    /\ call.rows = << >>
    /\ call.before.outputTransactionCount = 2
    /\ log.outputTransactionCount = 0
    /\ log.totalOutflow = 15000
    /\ log.totalInflow = 500000

-----------------------------------------------------------------------------
\* C26: recorders are isolated: each createAuditLogger call has a log of its
\* own, and in every interleaving of the operations of two recorders an
\* operation on one leaves every field of the log of the other (accounts,
\* skipped, sample, output fields, checksum) as it was.
C26_OtherRecorderUntouched ==
    /\ (call.op # "none" /\ call.recorder = "first") => other = call.beside
    /\ (call.op # "none" /\ call.recorder = "second") => log = call.beside

\* a skipped item recorded on the first recorder after accounts and an output
\* were recorded on the second: each log holds what its recorder was given
C26_InterleavedRecorders ==
    /\ call.op = "recordSkipped"
    /\ call.recorder = "first"
    /\ Len(log.skipped) = 1
    /\ log.accounts = << >>
    /\ IsNone(log.checksum)
    /\ other.skipped = << >>
    /\ Len(other.accounts) > 0
    /\ IsSome(other.checksum)

-----------------------------------------------------------------------------
\* the values the memo carries under a key
MemoValues(memo, key) ==
    { memo[i][2] : i \in { j \in 1..Len(memo) : memo[j][1] = key } }

\* both dates of the record parse and fall on the same local calendar day
SameCalendarDay(txn) ==
    /\ TruthyStr(txn.date) /\ TruthyStr(txn.processedDate)
    /\ IsSome(parseDate(Get(txn.date)))
    /\ IsSome(parseDate(Get(txn.processedDate)))
    /\ formatDate(Get(parseDate(Get(txn.date))))
         = formatDate(Get(parseDate(Get(txn.processedDate))))

\* C27: buildMemo writes the transaction date only if it differs from the
\* processed date: in the memo of a returned row that carries transactionDate
\* and chargeDate the two are different calendar dates, and when both dates of
\* the record are the same calendar day the memo has no transactionDate and
\* still has chargeDate.
C27_TransactionDateOnlyIfOtherDay ==
    RowReturned =>
        /\ \A t \in MemoValues(Get(call.result.row).memo, "transactionDate") :
             \A c \in MemoValues(Get(call.result.row).memo, "chargeDate") : t # c
        /\ SameCalendarDay(call.txn) =>
             /\ MemoValues(Get(call.result.row).memo, "transactionDate") = {}
             /\ MemoValues(Get(call.result.row).memo, "chargeDate") # {}

\* a purchase dated "2024-03-15T00:00:00+02:00" and charged "2024-03-15": the
\* memo carries 2024-03-15 under both keys
C27_SameDayWrittenTwice ==
    /\ RowReturned
    /\ call.txn.date = Some(AtPlus2(2024, 3, 15))
    /\ call.txn.processedDate = Some(PlainDate(2024, 3, 15))
    /\ MemoValues(Get(call.result.row).memo, "transactionDate") = { PlainDate(2024, 3, 15) }
    /\ MemoValues(Get(call.result.row).memo, "chargeDate") = { PlainDate(2024, 3, 15) }

\* what the code does: the transaction date is left out when the two date
\* strings of the record are equal, and the charge date, if it parses, is
\* still written
TransactionDateOmittedForEqualStrings ==
    (/\ RowReturned
     /\ TruthyStr(call.txn.date)
     /\ call.txn.date = call.txn.processedDate
     /\ IsSome(parseDate(Get(call.txn.processedDate)))) =>
        /\ MemoValues(Get(call.result.row).memo, "transactionDate") = {}
        /\ MemoValues(Get(call.result.row).memo, "chargeDate") # {}

-----------------------------------------------------------------------------
\* the enabled accounts of a list, in the order of the list
EnabledOf(accounts) == SelectSeq(accounts, LAMBDA a : a.enabled)

\* the scrape of the account did not give a result with success
ScrapeFailed(scrape) == scrape.kind = "throws" \/ ~scrape.success

\* C29: scrapeAllAccounts returns one result per enabled account in the order
\* of the configuration; the scrape of an account begins only when the one
\* before it has settled, and no disabled account is scraped; a scrape that
\* fails or throws gives a result without success, without transactions and
\* with an error, and the accounts after it are scraped all the same; a
\* result with success has no error and each of its transactions carries the
\* name of the account.
C29_OneResultPerEnabledAccount ==
    call.op = "scrapeAllAccounts" =>
        LET enabled == EnabledOf(call.accounts)
            results == call.result.results
            trace   == call.result.trace
        IN  /\ Len(results) = Len(enabled)
            /\ Len(trace) = 2 * Len(enabled)
            /\ \A i \in 1..Len(enabled) :
                 /\ results[i].accountName = enabled[i].name
                 /\ trace[2 * i - 1] = <<"begin", enabled[i].name>>
                 /\ trace[2 * i] = <<"settled", enabled[i].name>>
                 /\ ScrapeFailed(call.scrapers[enabled[i].name]) =>
                      /\ ~results[i].success
                      /\ results[i].transactions = << >>
                      /\ IsSome(results[i].error)
                 /\ ~ScrapeFailed(call.scrapers[enabled[i].name]) =>
                      /\ results[i].success
                      /\ IsNone(results[i].error)
                      /\ \A k \in 1..Len(results[i].transactions) :
                           results[i].transactions[k].accountName = Some(enabled[i].name)

\* two enabled accounts: the scrape of Max throws and
\* Leumi, scraped after it, gives its three transactions
C29_ScrapedAfterAnException ==
    /\ call.op = "scrapeAllAccounts"
    /\ call.accounts = <<AccountConfig("Max", TRUE), AccountConfig("Leumi", TRUE)>>
    /\ call.scrapers["Max"].kind = "throws"
    /\ call.result.results[1] = ScrapeResult("Max", FALSE, << >>, Some("net::ERR_TIMED_OUT"))
    /\ call.result.results[2].success
    /\ Len(call.result.results[2].transactions) = 3

\* a disabled account in front of an enabled one is left out of the results
C29_DisabledAccountLeftOut ==
    /\ call.op = "scrapeAllAccounts"
    /\ call.accounts = <<AccountConfig("Leumi", FALSE), AccountConfig("Max", TRUE)>>
    /\ Len(call.result.results) = 1
    /\ call.result.results[1].accountName = "Max"
    /\ call.result.trace = << <<"begin", "Max">>, <<"settled", "Max">> >>

-----------------------------------------------------------------------------
\* the positions of the events of the given types
EventsOfType(events, types) == { i \in 1..Len(events) : events[i].type \in types }

\* the names of the account-done events, in the order they were written
AccountsDone(events) ==
    LET done == SelectSeq(events, LAMBDA e : e.type = "account-done")
    IN  [i \in 1..Len(done) |-> done[i].accountName]

\* the request fails before or instead of the scrape: daysBack is refused by
\* the configuration, or no account is enabled
StreamFails ==
    \/ validateDaysBack(queryDaysBack(call.request.daysBack)).threw
    \/ \A i \in 1..Len(call.accounts) : ~call.accounts[i].enabled

C28_NoEnabledAccountEndsInError ==
    /\ call.op = "scrapeStream"
    /\ call.accounts = <<AccountConfig("Max", FALSE), AccountConfig("Leumi", FALSE)>>
    /\ call.request.daysBack = None
    /\ Len(call.response.events) = 2
    /\ call.response.events[1].type = "warning"
    /\ call.response.events[2].type = "error"

-----------------------------------------------------------------------------
\* the positions of the terminal events among those given to onEvent
TerminalDelivered == { i \in 1..Len(es.delivered) : es.delivered[i] \in {"done", "error"} }

\* C30: createScrapeStream gives onEvent at most one terminal event (done or
\* error) per stream, and the EventSource is closed once it has: after a done
\* or error message, or after a connection error (given as an error event),
\* no further event reaches onEvent, in every interleaving of the messages of
\* the server and connection errors.
C30_AtMostOneTerminalDelivered ==
    /\ Cardinality(TerminalDelivered) <= 1
    /\ TerminalDelivered \subseteq { Len(es.delivered) }
    /\ TerminalDelivered # {} => es.readyState = "closed"

\* a progress event and the done event were delivered, and a message that
\* arrived after them was dropped
C30_MessageAfterDoneDropped ==
    /\ es.delivered = <<"progress", "done">>
    /\ es.written = 3
    /\ es.arrived = << >>
    /\ es.readyState = "closed"

\* a connection error while the done message had arrived and was not yet
\* dispatched: onEvent is given the error, and the done message is dropped
C30_ErrorBeforeDoneDispatched ==
    /\ es.delivered = <<"error">>
    /\ es.written = 1
    /\ es.arrived = << >>
    /\ es.readyState = "closed"
====
